---- MODULE Spec2Model ----
(***************************************************************************)
(* The local repository cache of spoon (src/src/index.ts, lines 1-1267)    *)
(* and of its earlier variant gain (same file, lines 1269-2300): metadata  *)
(* files, the history log, TTL purge, manual removal and the handleRepo    *)
(* pipeline of one invocation.                                             *)
(*                                                                         *)
(* Strings are sequences of tokens: a name ("o1", "r1"), "/", ".git", or   *)
(* the head of a URL.  Timestamps are integers read from the clock `now`.  *)
(***************************************************************************)
EXTENDS Integers, Sequences, FiniteSets, TLC

\* ------------------------------------------------------------------ bounds
MaxTime == 2      \* the clock runs from 0 to MaxTime
MaxFill == 9     \* most repositories cached before the first invocation
MaxHist == 2      \* no new invocation once this many entries were appended
MaxBehind == 1    \* most commits the status check counts behind the remote

\* ------------------------------------------------------- program constants
PURGE_FLOOR == 10
DEFAULT_BRANCH == "main"

\* --------------------------------------------------------------- alphabet
GitHubHead == "https://github.com/"
GitHubSsh == "git@github.com:"
OtherSsh == "git@gitlab.com:"
Slash == "/"
DotGit == ".git"
Space == " "
\* The heads a value can start with for which isUrl holds, and those of
\* them in which the pattern of parseRepoSlug finds "github.com:" or
\* "github.com/".
UrlHeads == {GitHubHead, GitHubSsh, OtherSsh}

Undefined == "undefined"
Canceled == "canceled"
Null == [null |-> TRUE]
NaN == -1
NoTime == -2
NoScan == -3
BehindUnknown == -4

Branches == {"main", "dev"}
BranchOptions == {Undefined, "dev"}    \* no --branch option, or --branch dev
TtlChoices == {1}

FillOwner == "fo"
FillNames == <<"f01", "f02", "f03", "f04", "f05", "f06",
               "f07", "f08", "f09", "f10", "f11", "f12">>

\* name1 + "/" + name2
FullName(owner, repo) == owner \o <<Slash>> \o repo

FillLocs(n) == {FullName(<<FillOwner>>, <<FillNames[i]>>) : i \in 1..n}
UserLocs == {FullName(<<"o1">>, <<"r1">>)}
Locs == UserLocs \cup FillLocs(MaxFill)

\* The references a user types for the run command.
RunInputs ==
    { <<"o1", Slash, "r1">>,
      <<GitHubHead, "o1", Slash, "r1", Slash>> }

\* The same, a URL of another host, and two queries.
ResolveInputs ==
    RunInputs \cup {<<OtherSsh, "o1", Slash, "r1">>, <<"R1">>, <<"r">>}

\* ---------------------------------------------------------------- strings
Last(s) == s[Len(s)]
Front(s) == SubSeq(s, 1, Len(s) - 1)
Min(S) == CHOOSE x \in S : \A y \in S : x <= y
SlashAt(s) == {k \in 1..Len(s) : s[k] = Slash}

isUrl(value) == Len(value) > 0 /\ value[1] \in UrlHeads

\* String.replace(/\.git$/, "")
StripDotGit(s) == IF Len(s) > 0 /\ Last(s) = DotGit THEN Front(s) ELSE s

\* input.match(/github\.com[:\/](.+?)\/(.+?)(?:\.git)?$/): the owner is the
\* shortest non-empty text before a "/" that leaves something after it; the
\* repo is the shortest non-empty rest, with one ".git" left off its end.
UrlMatch(input) ==
    LET rest == Tail(input)
        cuts == {k \in 1..(Len(rest) - 2) : rest[k + 1] = Slash}
    IN  IF input[1] \notin {GitHubHead, GitHubSsh} \/ cuts = {} THEN Null
        ELSE LET k == Min(cuts)
                 q == SubSeq(rest, k + 2, Len(rest))
             IN  [owner |-> SubSeq(rest, 1, k),
                  repo |-> IF Len(q) >= 2 /\ Last(q) = DotGit THEN Front(q) ELSE q]

\* /^[^\/\s]+\/[^\/\s]+$/.test(input)
IsSlug(input) ==
    /\ Cardinality(SlashAt(input)) = 1
    /\ \A k \in SlashAt(input) : 1 < k /\ k < Len(input)
    /\ \A k \in 1..Len(input) : input[k] # Space

parseRepoSlug(input) ==
    IF isUrl(input)
    THEN LET match == UrlMatch(input)
         IN  IF match = Null THEN Null
             ELSE [owner |-> match.owner, repo |-> StripDotGit(match.repo), url |-> input]
    ELSE IF IsSlug(input)
    THEN LET k == Min(SlashAt(input))
         IN  [owner |-> SubSeq(input, 1, k - 1),
              repo |-> SubSeq(input, k + 1, Len(input)),
              url |-> <<GitHubHead>> \o input]
    ELSE Null

\* path.join below baseDir: empty segments and a trailing "/" are dropped.
RECURSIVE Normalize(_)
Normalize(p) ==
    IF p = <<>> THEN <<>>
    ELSE IF Head(p) = Slash /\ (Len(p) = 1 \/ p[2] = Slash) THEN Normalize(Tail(p))
    ELSE <<Head(p)>> \o Normalize(Tail(p))

repoDir(owner, repo) ==
    LET p == Normalize(FullName(owner, repo))
    IN  IF p # <<>> /\ Head(p) = Slash THEN Tail(p) ELSE p

Max(S) == CHOOSE x \in S : \A y \in S : x >= y

\* resolve(path, "..")
Parent(path) == IF SlashAt(path) = {} THEN <<>> ELSE SubSeq(path, 1, Max(SlashAt(path)) - 1)

\* ------------------------------------------------------------------ state
VARIABLES
    tool,            \* "spoon" (lines 1-1267) or "gain" (lines 1269-2300)
    ttlMs,           \* config.ttlMs
    now,             \* the clock: Date.now(), new Date()
    fs,              \* the directories and metadata files below config.baseDir
    history,         \* the lines of history.jsonl
    pc,              \* where the current invocation stands
    command,         \* normalizedCommand of main
    repoInput,       \* positional.join(" ") of the run command
    branchOverride,  \* options.branch
    repo,            \* handleRepo: the resolved {owner, repo, url}
    branch,          \* handleRepo: let branch
    clonedAt,        \* handleRepo: let clonedAt
    meta,            \* handleRepo: const meta
    selected,        \* runGain, pick: const selected
    lifecycle,       \* handleRepo: the state it found the repository in
    gitOp,           \* handleRepo: the git operation it ran
    status,          \* handleRepo: what describeRepoStatus returned, until its
                     \* block is left
    steps,           \* the searches, prompts and subprocesses of the current
                     \* block (resolveRepo, then the branch of handleRepo), in order
    offered,         \* the lines the chooser was handed in that block, empty
                     \* when it was not called
    origin,          \* handleRepo: the remote as git found it in that block,
                     \* Null when no command asked it for a branch
    checkedOut,      \* handleRepo: what getCurrentBranch returned in that block,
                     \* Undefined when it returned null or was not called
    scanned,         \* purgeOnInvoke: entries.length, NoScan before it is called
    histMark,        \* history.length when the current invocation started
    work,            \* the git repository in targetDir: its branches, its
                     \* remote-tracking branches and the branch checked out
    runs             \* the handleRepo calls of concurrent processes on targetDir

fsVars == <<fs, history>>
cfgVars == <<tool, ttlMs>>
argVars == <<command, repoInput, branchOverride>>
locVars == <<repo, branch, clonedAt, meta, selected>>
obsVars == <<lifecycle, gitOp, status, steps, offered, origin, checkedOut, scanned, histMark>>
\* The refs of the working copy are followed in SpecCheckout and SpecRace;
\* elsewhere what git finds in it (hasLocal, current, the status) is an input
\* of every step, since the launched program and the user work in it freely.
gitVars == <<work, runs>>
vars == <<cfgVars, now, fsVars, pc, argVars, locVars, obsVars, gitVars>>

\* ------------------------------------------------------------- file system
\* fs.base: baseDir exists; fs.owners: the directories baseDir/<owner>;
\* fs.repos: the directories baseDir/<owner>/<repo>; fs.meta[d]: the parsed
\* metadata file of d, Null when d holds none, Torn when it cannot be parsed.
OwnerOf(path) == Parent(path)
readdirSync(f, owner) == {d \in f.repos : OwnerOf(d) = owner}

\* The content of a metadata file that JSON.parse throws on: the file was
\* cut short while it was written.
Torn == [torn |-> TRUE]

\* Variant of readMeta that returns whatever the file holds.
readMetaUnguarded(f, dir) == IF dir \in f.repos THEN f.meta[dir] ELSE Null

\* readMeta: null when the file does not exist or JSON.parse throws.
readMeta(f, dir) ==
    IF dir \notin f.repos \/ f.meta[dir] = Null THEN Null
    ELSE IF f.meta[dir] = Torn THEN Null
    ELSE f.meta[dir]

\* The fields of RepoMeta in the order of the type, which is the order in
\* which every object literal of the program lists them.
RepoMetaFields == <<"repoUrl", "repoFullName", "branch", "clonedAt", "lastAccess">>

\* A property whose value is undefined: JSON.stringify leaves it out.
IsUndefined(k, v) ==
    IF k \in {"clonedAt", "lastAccess"} THEN v = NoTime
    ELSE IF k = "branch" THEN v = Undefined
    ELSE FALSE

\* JSON.stringify(meta, null, 2): the text as the sequence of its members
\* <<key, value>>, one for every own property whose value is defined.
JSONstringify(m) ==
    LET Own(k) == k \in DOMAIN m /\ ~IsUndefined(k, m[k])
        keys == SelectSeq(RepoMetaFields, Own)
    IN  [i \in 1..Len(keys) |-> <<keys[i], m[keys[i]]>>]

\* Variant of JSON.parse that keeps only the first member of the text.
JSONparseFirst(text) ==
    [k \in {text[i][1] : i \in DOMAIN text \cap {1}} |-> text[1][2]]

\* JSON.parse(text): the object with one property for every member.
JSONparse(text) ==
    [k \in {text[i][1] : i \in DOMAIN text} |->
        text[CHOOSE i \in DOMAIN text : text[i][1] = k][2]]

\* Variant of writeMeta that leaves a metadata file that is there alone.
writeMetaIfAbsent(f, dir, m) ==
    IF f.meta[dir] # Null THEN f ELSE [f EXCEPT !.meta[dir] = JSONparse(JSONstringify(m))]

\* The file holds JSON.stringify(m); fs.meta keeps what JSON.parse makes of it.
writeMeta(f, dir, m) == [f EXCEPT !.meta[dir] = JSONparse(JSONstringify(m))]

mkdirRepo(f, dir) ==
    [f EXCEPT !.owners = @ \cup {OwnerOf(dir)}, !.repos = @ \cup {dir}]

ensureOwnerDir(f, owner) == [f EXCEPT !.base = TRUE, !.owners = @ \cup {owner}]

\* The order in which readdirSync lists the directories: by name.
ScanOrder ==
    << FullName(<<FillOwner>>, <<FillNames[1]>>), FullName(<<FillOwner>>, <<FillNames[2]>>),
       FullName(<<FillOwner>>, <<FillNames[3]>>), FullName(<<FillOwner>>, <<FillNames[4]>>),
       FullName(<<FillOwner>>, <<FillNames[5]>>), FullName(<<FillOwner>>, <<FillNames[6]>>),
       FullName(<<FillOwner>>, <<FillNames[7]>>), FullName(<<FillOwner>>, <<FillNames[8]>>),
       FullName(<<FillOwner>>, <<FillNames[9]>>), FullName(<<FillOwner>>, <<FillNames[10]>>),
       FullName(<<FillOwner>>, <<FillNames[11]>>), FullName(<<FillOwner>>, <<FillNames[12]>>),
       <<"o1", Slash, "r1">> >>

collectRepos(f) ==
    IF ~f.base THEN {}
    ELSE {[path |-> d, meta |-> f.meta[d]] : d \in {d \in f.repos : readMeta(f, d) # Null}}

\* The entries of collectRepos in scan order, as the paths.
ScanPaths(f) ==
    LET In(d) == f.base /\ d \in f.repos /\ readMeta(f, d) # Null
    IN  SelectSeq(ScanOrder, In)

\* Variant of removeDir that removes the parent directory whatever it holds.
removeDirWithParent(f, path) ==
    LET parent == Parent(path)
    IN  [f EXCEPT !.repos = @ \ readdirSync(f, parent),
                  !.meta = [d \in DOMAIN @ |-> IF OwnerOf(d) = parent THEN Null ELSE @[d]],
                  !.owners = @ \ {parent}]

removeDir(f, path) ==
    LET f1 == IF path \in f.repos
              THEN [f EXCEPT !.repos = @ \ {path}, !.meta[path] = Null]
              ELSE f
        parent == Parent(path)
    IN  IF parent \in f1.owners /\ readdirSync(f1, parent) = {}
        THEN [f1 EXCEPT !.owners = @ \ {parent}]
        ELSE f1

\* new Date(value).getTime(), Number.isFinite
getTime(value) == value
isFinite(t) == t # NaN

\* Variant of shouldPurge that also purges an entry aged exactly ttl.
shouldPurgeAtBoundary(entry, ttl, clock) ==
    LET lastAccess == getTime(entry.meta.lastAccess)
    IN  isFinite(lastAccess) /\ clock - lastAccess >= ttl

\* Variant of shouldPurge that does not test whether lastAccess is a time.
shouldPurgeUnparsed(entry, ttl, clock) ==
    LET lastAccess == getTime(entry.meta.lastAccess)
    IN  clock - lastAccess > ttl

shouldPurge(entry, ttl, clock) ==
    LET lastAccess == getTime(entry.meta.lastAccess)
    IN  isFinite(lastAccess) /\ clock - lastAccess > ttl

RECURSIVE removeAll(_, _)
removeAll(f, paths) ==
    IF paths = <<>> THEN f ELSE removeAll(removeDir(f, Head(paths)), Tail(paths))

\* Variant of purgeRepos that removes nothing.
purgeReposNone(f, ttl, clock) == f

purgeRepos(f, ttl, clock) ==
    LET Expired(d) == shouldPurge([path |-> d, meta |-> f.meta[d]], ttl, clock)
    IN  removeAll(f, SelectSeq(ScanPaths(f), Expired))

\* Variant of purgeOnInvoke without the floor on the number of entries.
purgeOnInvokeNoFloor(f, ttl, clock) == purgeRepos(f, ttl, clock)

purgeOnInvoke(f, ttl, clock) ==
    IF Cardinality(collectRepos(f)) < PURGE_FLOOR THEN f ELSE purgeRepos(f, ttl, clock)

\* ---------------------------------------------------------------- history
\* A line of history.jsonl.  Its timestamp is read by ls alone, to order
\* what it prints, and is left out.
HistoryEntry(repoFullName) == [repoFullName |-> repoFullName]

\* Variant of appendHistory that writes the file instead of appending to it.
appendHistoryOverwrite(h, repoFullName) == <<HistoryEntry(repoFullName)>>

\* Variant of appendHistory that writes the line twice.
appendHistoryTwice(h, repoFullName) ==
    h \o <<HistoryEntry(repoFullName), HistoryEntry(repoFullName)>>

appendHistory(h, repoFullName) == Append(h, HistoryEntry(repoFullName))

logged(h) == {h[i].repoFullName : i \in 1..Len(h)}

RECURSIVE appendMissing(_, _, _)
appendMissing(h, names, seen) ==
    IF names = <<>> THEN h
    ELSE appendMissing(IF Head(names) \in seen THEN h ELSE appendHistory(h, Head(names)),
                       Tail(names), seen)

\* Variant of syncHistory that appends nothing.
syncHistorySkipped(f, h) == h

\* Variant of syncHistory that does not look at what is already logged.
syncHistoryAll(f, h) ==
    LET paths == ScanPaths(f)
        names == [i \in 1..Len(paths) |-> f.meta[paths[i]].repoFullName]
    IN  appendMissing(h, names, {})

\* `logged` is computed once, before the loop.
syncHistory(f, h) ==
    LET paths == ScanPaths(f)
        names == [i \in 1..Len(paths) |-> f.meta[paths[i]].repoFullName]
    IN  appendMissing(h, names, logged(h))

\* ------------------------------------------------------------------- Init
\* The cache before the first invocation: n repositories cloned and last
\* used at time 0, each logged once, and possibly one directory the tool did
\* not create.

FillMeta(d) ==
    [repoUrl |-> <<GitHubHead>> \o d, repoFullName |-> d, branch |-> DEFAULT_BRANCH,
     clonedAt |-> 0, lastAccess |-> 0]

InitFs(n, foreign) ==
    [base |-> n > 0 \/ foreign # {},
     owners |-> {OwnerOf(d) : d \in FillLocs(n) \cup foreign},
     repos |-> FillLocs(n) \cup foreign,
     meta |-> [d \in Locs |-> IF d \in FillLocs(n) THEN FillMeta(d) ELSE Null]]

Idle ==
    /\ pc = "idle"
    /\ command = Undefined /\ repoInput = <<>> /\ branchOverride = Undefined
    /\ repo = Null /\ branch = Undefined /\ clonedAt = NoTime /\ meta = Null /\ selected = Null
    /\ lifecycle = Undefined /\ gitOp = Undefined /\ scanned = NoScan
    /\ status = Null /\ steps = <<>> /\ offered = <<>> /\ origin = Null /\ checkedOut = Undefined

Init ==
    /\ tool \in {"spoon", "gain"}
    /\ ttlMs \in TtlChoices
    /\ now = 0
    /\ \E n \in {MaxFill}, foreign \in SUBSET {<<"o1", Slash, "r1">>} :
          /\ fs = InitFs(n, foreign)
          /\ history = [i \in 1..n |-> HistoryEntry(FullName(<<FillOwner>>, <<FillNames[i]>>))]
    /\ Idle
    /\ histMark = Len(history)
    /\ work = Null /\ runs = <<>>

\* ---------------------------------------------------------------- actions
\* The entries appended since the cache was set up.
Appended(h) ==
    LET NotFill(e) == e.repoFullName \notin FillLocs(Len(FillNames))
    IN  Len(SelectSeq(h, NotFill))

\* main: runSpoon (runGain) is entered with the command.  The repository
\* argument and the --branch option are read where they are first used
\* (RunResolve, handleRepo).  spoon
\* handles config before it reads the configuration; every other command
\* starts with ensureDir(config.baseDir) and syncHistory(config.baseDir).
Invoke(c) ==
    /\ pc = "idle"
    /\ Appended(history) < MaxHist
    /\ command' = c
    /\ histMark' = Len(history)
    /\ IF tool = "spoon" /\ c = "config"
       THEN pc' = "config" /\ UNCHANGED fsVars
       ELSE /\ fs' = [fs EXCEPT !.base = TRUE]
            /\ history' = syncHistory(fs', history)
            /\ pc' = "purge"
    /\ UNCHANGED <<cfgVars, now, repoInput, branchOverride, locVars, lifecycle, gitOp,
                   status, steps, offered, origin, checkedOut, scanned>>
    /\ UNCHANGED gitVars

\* runSpoon, command === "config": the file is opened, or an error is thrown.
SpoonConfig(ok) ==
    /\ pc = "config"
    /\ pc' = IF ok THEN "done" ELSE "failed"
    /\ UNCHANGED <<cfgVars, now, fsVars, argVars, locVars, obsVars>>
    /\ UNCHANGED gitVars

\* Variant of RunPurge: the invocation goes on without the purge step.
SkipPurge ==
    /\ pc = "purge"
    /\ pc' = "dispatch"
    /\ UNCHANGED <<cfgVars, now, fsVars, argVars, locVars, obsVars>>
    /\ UNCHANGED gitVars

\* await purgeOnInvoke(config.baseDir, config.ttlMs)
RunPurge ==
    /\ pc = "purge"
    /\ fs' = purgeOnInvoke(fs, ttlMs, now)
    /\ scanned' = Cardinality(collectRepos(fs))
    /\ pc' = "dispatch"
    /\ UNCHANGED <<cfgVars, now, history, argVars, locVars, lifecycle, gitOp, status, steps,
                   offered, origin, checkedOut, histMark>>
    /\ UNCHANGED gitVars

\* runGain, command === "config": writeConfig with the --ttl option.
GainConfig(ttl) ==
    /\ pc = "dispatch" /\ command = "config"
    /\ ttlMs' = ttl
    /\ pc' = "done"
    /\ UNCHANGED <<tool, now, fsVars, argVars, locVars, obsVars>>
    /\ UNCHANGED gitVars

\* What the user may tick in the multiselect of removeRepos.
RemoveChoices(f) ==
    LET paths == {e.path : e \in collectRepos(f)}
    IN  (SUBSET (paths \cap (UserLocs \cup FillLocs(1))))
        \cup {{e.path : e \in {x \in collectRepos(f) : shouldPurge(x, ttlMs, now)}}}

\* One subprocess (or prompt, or search) and whether it went through: a
\* subprocess that exits with 0, a chooser that returns a selection.
Ran(cmd) == [cmd |-> cmd, ok |-> TRUE]
Caught(cmd) == [cmd |-> cmd, ok |-> FALSE]

\* removeRepos, the two groups of options of the multiselect: the paths of
\* the entries shouldPurge rejects (active) and of those it takes (expired).
removeOptions(f, ttl, clock) ==
    LET expired == {e.path : e \in {x \in collectRepos(f) : shouldPurge(x, ttl, clock)}}
        active == {e.path : e \in collectRepos(f)} \ expired
    IN  <<active, expired>>

\* Variant of removeRepos that removes what is ticked when the prompt is
\* canceled.
removeReposDespiteCancel(f, canceled, selection) ==
    LET Ticked(d) == d \in selection
    IN  IF collectRepos(f) = {} THEN f
        ELSE removeAll(f, SelectSeq(ScanPaths(f), Ticked))

removeRepos(f, canceled, selection) ==
    LET Ticked(d) == d \in selection
    IN  IF collectRepos(f) = {} \/ canceled THEN f
        ELSE removeAll(f, SelectSeq(ScanPaths(f), Ticked))

\* remove: the multiselect is shown unless the cache is empty; canceled is
\* whether the user cancels it, selection what is ticked when it is left.
RunRemove(canceled, selection) ==
    /\ pc = "dispatch" /\ command = "remove"
    /\ fs' = removeRepos(fs, canceled, selection)
    /\ IF collectRepos(fs) = {}
       THEN UNCHANGED <<steps, offered>>
       ELSE /\ steps' = <<IF canceled THEN Caught("multiselect") ELSE Ran("multiselect")>>
            /\ offered' = removeOptions(fs, ttlMs, now)
    /\ pc' = "done"
    /\ UNCHANGED <<cfgVars, now, history, argVars, locVars, lifecycle, gitOp, status, origin,
                   checkedOut, scanned, histMark>>
    /\ UNCHANGED gitVars

RunLs ==
    /\ pc = "dispatch" /\ command = "ls"
    /\ pc' = "done"
    /\ UNCHANGED <<cfgVars, now, fsVars, argVars, locVars, obsVars>>
    /\ UNCHANGED gitVars

\* resolveLaunchTarget (ensureProvider) throws.
LaunchTargetFails ==
    /\ pc = "dispatch" /\ command \in {"pick", "run"}
    /\ pc' = "failed"
    /\ steps' = <<Caught("resolveLaunchTarget")>>
    /\ UNCHANGED <<cfgVars, now, fsVars, argVars, locVars, lifecycle, gitOp, status, offered,
                   origin, checkedOut, scanned, histMark>>
    /\ UNCHANGED gitVars

\* pick: no local repos, or the selection is canceled.
PickNone(canceled) ==
    /\ pc = "dispatch" /\ command = "pick"
    /\ IF collectRepos(fs) = {} THEN pc' = "done"
       ELSE canceled /\ pc' = "failed"
    /\ UNCHANGED <<cfgVars, now, fsVars, argVars, locVars, obsVars>>
    /\ UNCHANGED gitVars

\* runSpoon, pick: the selected entry is parsed and handed to handleRepo.
PickSpoon(e) ==
    /\ pc = "dispatch" /\ command = "pick" /\ tool = "spoon"
    /\ e \in collectRepos(fs)
    /\ LET parsed == parseRepoSlug(e.meta.repoFullName)
       IN  IF parsed = Null
           THEN pc' = "failed" /\ UNCHANGED repo
           ELSE /\ repo' = [owner |-> parsed.owner, repo |-> parsed.repo,
                            url |-> IF e.meta.repoUrl # <<>> THEN e.meta.repoUrl ELSE parsed.url]
                /\ pc' = "handle"
    /\ UNCHANGED <<cfgVars, now, fsVars, argVars, branch, clonedAt, meta, selected, obsVars>>
    /\ UNCHANGED gitVars

\* runGain, pick: the provider is launched in the selected entry.
PickGain(e) ==
    /\ pc = "dispatch" /\ command = "pick" /\ tool = "gain"
    /\ e \in collectRepos(fs)
    /\ selected' = e
    /\ pc' = "picklaunch"
    /\ UNCHANGED <<cfgVars, now, fsVars, argVars, repo, branch, clonedAt, meta, obsVars>>
    /\ UNCHANGED gitVars

\* Variant of updateMetaAccess that stamps clonedAt instead of lastAccess.
updateMetaCloned(m, b, clock) == [m EXCEPT !.branch = b, !.clonedAt = clock]

\* Variant of updateMetaAccess that keeps the lastAccess it was given.
updateMetaStale(m, b, clock) == [m EXCEPT !.branch = b]

updateMetaAccess(m, b, clock) == [m EXCEPT !.branch = b, !.lastAccess = clock]

GainPickLaunched(exitCode) ==
    /\ pc = "picklaunch"
    /\ IF exitCode = 0
       THEN /\ fs' = writeMeta(fs, selected.path,
                               updateMetaAccess(selected.meta, selected.meta.branch, now))
            /\ history' = appendHistory(history, selected.meta.repoFullName)
            /\ pc' = "done"
       ELSE pc' = "failed" /\ UNCHANGED fsVars
    /\ UNCHANGED <<cfgVars, now, argVars, locVars, obsVars>>
    /\ UNCHANGED gitVars

\* The values of an input: all of them when the code reads it, one
\* otherwise.
Asked(read, values) == IF read THEN values ELSE {CHOOSE v \in values : TRUE}

\* ------------------------------------------------------------ resolveRepo
\* The characters of a token.
Spelling ==
    LET Digits == <<"0", "1", "2", "3", "4", "5", "6", "7", "8", "9">>
    IN
    [tok \in {"o1", "r1", "R1", FillOwner} \cup {FillNames[i] : i \in 1..Len(FillNames)} |->
        IF tok = "o1" THEN <<"o", "1">>
        ELSE IF tok = "r1" THEN <<"r", "1">>
        ELSE IF tok = "R1" THEN <<"R", "1">>
        ELSE IF tok = FillOwner THEN <<"f", "o">>
        ELSE LET i == CHOOSE i \in 1..Len(FillNames) : FillNames[i] = tok
             IN  <<"f", Digits[(i \div 10) + 1], Digits[(i % 10) + 1]>>]
Chars(tok) == IF tok \in DOMAIN Spelling THEN Spelling[tok] ELSE <<tok>>

RECURSIVE Spell(_)
Spell(s) == IF s = <<>> THEN <<>> ELSE Chars(Head(s)) \o Spell(Tail(s))

\* String.toLowerCase, on the characters
toLowerCase(s) ==
    LET chars == Spell(s)
    IN  [i \in 1..Len(chars) |-> IF chars[i] = "R" THEN "r" ELSE chars[i]]

\* String.includes
includes(hay, needle) ==
    \E h \in {hay}, n \in {needle} :
       \E k \in 0..(Len(h) - Len(n)) : SubSeq(h, k + 1, k + Len(n)) = n

\* String.split("/"): the segments between the slashes.
RECURSIVE split(_)
split(s) ==
    IF SlashAt(s) = {} THEN <<s>>
    ELSE <<SubSeq(s, 1, Min(SlashAt(s)) - 1)>> \o split(SubSeq(s, Min(SlashAt(s)) + 1, Len(s)))

\* Array.from(new Set(list)): the elements in the order of first appearance.
Unique(list) ==
    LET keep == {i \in 1..Len(list) : \A j \in 1..(i - 1) : list[j] # list[i]}
        Nth(k) == CHOOSE i \in keep : Cardinality({j \in keep : j < i}) = k - 1
    IN  [k \in 1..Cardinality(keep) |-> list[Nth(k)]]

\* searchLocalAndHistory, the map `seen`: the full names of the cached
\* repositories, then those of the history that are not cached.
seenNames(f, h) ==
    LET paths == ScanPaths(f)
        localNames == [i \in 1..Len(paths) |-> f.meta[paths[i]].repoFullName]
        historyNames == [i \in 1..Len(h) |-> h[i].repoFullName]
        names == Unique(localNames \o historyNames)
        localSet == {localNames[i] : i \in 1..Len(localNames)}
    IN  [i \in 1..Len(names) |->
            [fullName |-> names[i],
             source |-> IF names[i] \in localSet THEN "local" ELSE "history"]]

\* fullName.split("/")[1]?.toLowerCase() ?? ""
repoNameOf(fullName) ==
    IF Len(split(fullName)) >= 2 THEN toLowerCase(split(fullName)[2]) ELSE <<>>

exactMatches(lowerQuery, seen) ==
    LET Exact(c) == repoNameOf(c.fullName) = lowerQuery
    IN  SelectSeq(seen, Exact)

substringMatches(lowerQuery, seen) ==
    LET Sub(c) ==
            \E repoName \in {repoNameOf(c.fullName)} :
               /\ repoName # lowerQuery
               /\ \/ includes(repoName, lowerQuery)
                  \/ includes(toLowerCase(c.fullName), lowerQuery)
    IN  SelectSeq(seen, Sub)

\* Variant of pickFrom that takes the exact and the substring matches.
pickFromAll(query, f, h) ==
    LET lowerQuery == toLowerCase(query)
        seen == seenNames(f, h)
    IN  exactMatches(lowerQuery, seen) \o substringMatches(lowerQuery, seen)

\* const pickFrom = exactMatches.length > 0 ? exactMatches : substringMatches
pickFrom(query, f, h) ==
    LET lowerQuery == toLowerCase(query)
        seen == seenNames(f, h)
        exact == exactMatches(lowerQuery, seen)
    IN  IF exact # <<>> THEN exact ELSE substringMatches(lowerQuery, seen)

\* const [owner, repo] = chosen.split("/"); the url is built from chosen.
localResult(chosen) ==
    [owner |-> split(chosen)[1],
     repo |-> IF Len(split(chosen)) >= 2 THEN split(chosen)[2] ELSE <<>>,
     url |-> <<GitHubHead>> \o chosen]

\* What gh search repos can answer: the command fails, or prints the
\* repositories found.
SearchRuns ==
    LET SearchItem(name) == [fullName |-> name, url |-> <<GitHubHead>> \o name]
    IN  {[ok |-> FALSE, results |-> <<>>], [ok |-> TRUE, results |-> <<>>],
         [ok |-> TRUE, results |-> <<SearchItem(<<"o1", Slash, "r1">>)>>]}

\* searchRepo: found is what gh search answers, pick the line the user
\* selects in fzf (0: none).
searchRepo(found, pick) ==
    IF ~found.ok
    THEN [repo |-> Null, ran |-> <<Caught("gh search")>>, lines |-> <<>>]
    ELSE IF found.results = <<>>
    THEN [repo |-> Null, ran |-> <<Ran("gh search")>>, lines |-> <<>>]
    ELSE IF pick = 0
    THEN [repo |-> Null, ran |-> <<Ran("gh search"), Caught("fzf")>>,
          lines |-> found.results]
    ELSE [repo |-> [owner |-> split(found.results[pick].fullName)[1],
                    repo |-> split(found.results[pick].fullName)[2],
                    url |-> found.results[pick].url],
          ran |-> <<Ran("gh search"), Ran("fzf")>>, lines |-> found.results]

\* searchLocalAndHistory from pickFrom on: null without a candidate, the
\* only candidate, or the one the user selects in fzf (pick, 0: none).
searchLocalAndHistory(cands, pick) ==
    IF cands = <<>>
    THEN [repo |-> Null, ran |-> <<Ran("searchLocalAndHistory")>>, lines |-> <<>>]
    ELSE IF Len(cands) = 1
    THEN [repo |-> localResult(cands[1].fullName),
          ran |-> <<Ran("searchLocalAndHistory")>>, lines |-> <<>>]
    ELSE IF pick = 0
    THEN [repo |-> Null, ran |-> <<Ran("searchLocalAndHistory"), Caught("fzf")>>,
          lines |-> cands]
    ELSE [repo |-> localResult(cands[pick].fullName),
          ran |-> <<Ran("searchLocalAndHistory"), Ran("fzf")>>, lines |-> cands]

\* Variant of resolveRepo that searches before it parses.
resolveRepoSearching(input, cands, pick, found) ==
    LET local == searchLocalAndHistory(cands, pick)
        remote == searchRepo(found, pick)
    IN  IF cands # <<>> THEN local
        ELSE IF found.ok /\ found.results # <<>> THEN [remote EXCEPT !.ran = local.ran \o @]
        ELSE [repo |-> parseRepoSlug(input), ran |-> local.ran, lines |-> <<>>]

\* Variant of resolveRepo that goes on to the remote search when the local
\* and history match returns nothing, canceled or not.
resolveRepoFallingThrough(input, cands, pick, found) ==
    LET parsed == parseRepoSlug(input)
        local == searchLocalAndHistory(cands, pick)
        remote == searchRepo(found, pick)
    IN  IF parsed # Null THEN [repo |-> parsed, ran |-> <<>>, lines |-> <<>>]
        ELSE IF local.repo # Null THEN local
        ELSE [remote EXCEPT !.ran = local.ran \o @]

\* resolveRepo: the exact parse, then the local and history match, then the
\* remote search.  cands is pickFrom of searchLocalAndHistory.  In the
\* result, repo is what resolveRepo returns, Null when it throws; ran the
\* searches, subprocesses and choosers it went through; lines what the
\* chooser was handed, empty when it was not called.
resolveRepo(input, cands, pick, found) ==
    LET parsed == parseRepoSlug(input)
        local == searchLocalAndHistory(cands, pick)
        remote == searchRepo(found, pick)
    IN  IF parsed # Null THEN [repo |-> parsed, ran |-> <<>>, lines |-> <<>>]
        ELSE IF cands # <<>> THEN local
        ELSE [remote EXCEPT !.ran = local.ran \o @]

\* The lines the user may select in the chooser of resolveRepo: those of the
\* user's repository (0: the chooser is canceled).
UserPicks(lines) ==
    {0} \cup {i \in 1..Len(lines) : split(lines[i].fullName)[1] = <<"o1">>}

\* run: the reference is resolved and handed to handleRepo, or resolveRepo
\* throws.  found is what gh search answers, read when neither the parse nor
\* the local match gives a repository; pick the line selected in a chooser.
RunResolve(input) ==
    /\ pc = "dispatch" /\ command = "run"
    /\ \E cands \in {IF parseRepoSlug(input) # Null THEN <<>>
                     ELSE pickFrom(input, fs, history)} :
         LET searches == parseRepoSlug(input) = Null /\ cands = <<>>
         IN  \E found \in Asked(searches, SearchRuns) :
               LET lines == IF searches THEN found.results
                            ELSE IF Len(cands) > 1 THEN cands ELSE <<>>
               IN  \E pick \in UserPicks(lines) :
                     LET res == resolveRepo(input, cands, pick, found)
                     IN  /\ repoInput' = input
                         /\ steps' = res.ran
                         /\ offered' = res.lines
                         /\ IF res.repo = Null
                            THEN pc' = "failed" /\ UNCHANGED repo
                            ELSE pc' = "resolved" /\ repo' = res.repo
    /\ UNCHANGED <<cfgVars, now, fsVars, command, branchOverride, branch, clonedAt, meta,
                   selected, lifecycle, gitOp, status, origin, checkedOut, scanned, histMark>>
    /\ UNCHANGED gitVars

\* run: resolveRepo has returned and handleRepo is called with the
\* repository; the reference and what resolveRepo went through are not read
\* again.
CallHandleRepo ==
    /\ pc = "resolved"
    /\ pc' = "handle"
    /\ repoInput' = <<>> /\ steps' = <<>> /\ offered' = <<>> /\ origin' = Null /\ checkedOut' = Undefined
    /\ UNCHANGED <<cfgVars, now, fsVars, command, branchOverride, locVars, lifecycle, gitOp,
                   status, scanned, histMark>>
    /\ UNCHANGED gitVars

\* ------------------------------------------------------------- handleRepo
\* handleRepo returns or throws: its parameters and locals are gone.
Unwind ==
    /\ branchOverride' = Undefined
    /\ branch' = Undefined /\ clonedAt' = NoTime /\ meta' = Null
    /\ lifecycle' = Undefined /\ gitOp' = Undefined /\ status' = Null /\ steps' = <<>>
    /\ offered' = <<>> /\ origin' = Null /\ checkedOut' = Undefined

targetDir == repoDir(repo.owner, repo.repo)
ownerDir == Normalize(repo.owner)


\* runCommand throws when the exit code is not 0: of the commands planned,
\* those before the failing one have run, the failing one is the last.
Throwing(plan) == {i \in 1..Len(plan) : plan[i].ok /\ plan[i].cmd # "prompt"}

\* Variant of Execute that goes on after the failing command.
ExecuteAll(plan, failAt) ==
    [i \in 1..Len(plan) |-> IF i = failAt THEN Caught(plan[i].cmd) ELSE plan[i]]

Execute(plan, failAt) ==
    IF failAt = 0 THEN plan
    ELSE SubSeq(plan, 1, failAt - 1) \o <<Caught(plan[failAt].cmd)>>
Threw(ran) == ran # <<>> /\ ~ran[Len(ran)].ok

\* The remote repository as the git commands of one block find it: head is
\* the branch its symbolic HEAD names (Undefined when ls-remote --symref
\* shows none), heads the branches in the order ls-remote --heads lists them.
UsualRemotes == {[head |-> "main", heads |-> <<"main", "dev">>]}
Remotes ==
    UsualRemotes
    \cup {[head |-> "main", heads |-> <<"dev", "main", "fix">>],
          [head |-> "dev", heads |-> <<"main", "dev">>],
          [head |-> Undefined, heads |-> <<"dev">>],
          [head |-> Undefined, heads |-> <<>>]}
HasBranch(r, b) == \E i \in 1..Len(r.heads) : r.heads[i] = b

\* defaultMatch ? defaultMatch[1] : "main"
defaultBranch(r) == IF r.head # Undefined THEN r.head ELSE "main"

\* Variant of ordered that puts the default branch in front of all the
\* branches listed.
orderedKeepingAll(r) == <<defaultBranch(r)>> \o Unique(r.heads)

\* [defaultBranch, ...uniqueBranches.filter((branch) => branch !== defaultBranch)]
ordered(r) ==
    LET uniqueBranches == Unique(r.heads)
        NotDefault(b) == b # defaultBranch(r)
    IN  <<defaultBranch(r)>> \o SelectSeq(uniqueBranches, NotDefault)

\* What the user may select in the branch chooser (Canceled: nothing).
BranchPicks(r) ==
    {b \in Branches : \E i \in 1..Len(ordered(r)) : ordered(r)[i] = b} \cup {Canceled}

\* git clone --branch <b> and git fetch origin <b> exit with a non-zero code
\* when the remote has no branch b: of the outcomes, those in which the
\* first such command of the plan, or one before it, fails.
Rejecting(plan, r, b) ==
    {i \in 1..Len(plan) : plan[i].cmd \in {"clone", "fetch origin <branch>"} /\ ~HasBranch(r, b)}
\* Variant of Outcomes in which git takes any branch name.
OutcomesAny(points, plan, r, b) == points

Outcomes(points, plan, r, b) ==
    IF Rejecting(plan, r, b) = {} THEN points
    ELSE {i \in points : i # 0 /\ i <= Min(Rejecting(plan, r, b))}

\* selectBranch: the forced branch, or what the chooser returns.
selectBranch(forcedBranch, chosen) ==
    IF forcedBranch # Undefined THEN forcedBranch ELSE chosen

\* The subprocesses of selectBranch: none with a forced branch; else the
\* default branch, then the branches sorted by commit date, listed again
\* unsorted when the sorted listing fails.
lsRemote(forcedBranch, sorted) ==
    IF forcedBranch # Undefined THEN <<>>
    ELSE <<Ran("ls-remote --symref")>>
         \o (IF sorted THEN <<Ran("ls-remote --sort")>>
             ELSE <<Caught("ls-remote --sort"), Ran("ls-remote --heads")>>)

cloneRepo == <<Ran("clone")>>

\* Variant of checkoutBranch that leaves HEAD where it is when the branch
\* exists locally.
checkoutBranchLazy(hasLocal) ==
    IF hasLocal THEN <<Ran("show-ref")>>
    ELSE <<Caught("show-ref"), Ran("fetch origin <branch>"), Ran("checkout -b")>>

\* Variant of checkoutBranch that fetches the branch and creates it whether
\* or not it exists locally.
checkoutBranchFetching(hasLocal) ==
    <<Caught("show-ref"), Ran("fetch origin <branch>"), Ran("checkout -b")>>

\* checkoutBranch: hasLocal is whether refs/heads/<branch> exists.
checkoutBranch(hasLocal) ==
    IF hasLocal THEN <<Ran("show-ref"), Ran("checkout")>>
    ELSE <<Caught("show-ref"), Ran("fetch origin <branch>"), Ran("checkout -b")>>

\* Variant of pullRepo that merges when it cannot fast-forward.
pullRepoMerging(hasLocal) ==
    <<Ran("fetch origin")>> \o checkoutBranch(hasLocal) \o <<Ran("pull")>>

pullRepo(hasLocal) ==
    <<Ran("fetch origin")>> \o checkoutBranch(hasLocal) \o <<Ran("pull --ff-only")>>

\* What the status check can meet: the fetch fails, the remote tracking ref
\* is missing, or rev-list counts the commits the local ref is behind.
StatusRuns ==
    {[fetch |-> FALSE, tracked |-> FALSE, count |-> 0],
     [fetch |-> TRUE, tracked |-> FALSE, count |-> 0]}
    \cup {[fetch |-> TRUE, tracked |-> TRUE, count |-> c] : c \in 0..MaxBehind}

\* Variant of describeRepoStatus that takes a failed check for "up to date".
describeRepoStatusOptimistic(run) ==
    IF ~run.fetch THEN [display |-> "Failed to fetch origin", behind |-> 0]
    ELSE IF ~run.tracked THEN [display |-> "Failed to check remote branch", behind |-> 0]
    ELSE IF run.count <= 0 THEN [display |-> "Up to date", behind |-> 0]
    ELSE [display |-> "commits behind", behind |-> run.count]

describeRepoStatus(run) ==
    IF ~run.fetch THEN [display |-> "Failed to fetch origin", behind |-> BehindUnknown]
    ELSE IF ~run.tracked
    THEN [display |-> "Failed to check remote branch", behind |-> BehindUnknown]
    ELSE IF run.count <= 0 THEN [display |-> "Up to date", behind |-> 0]
    ELSE [display |-> "commits behind", behind |-> run.count]

\* The lifecycle state a status stands for.
Lifecycle(st) ==
    IF st.behind = 0 THEN "PresentUpToDate"
    ELSE IF st.behind = BehindUnknown THEN "PresentUnknown"
    ELSE "PresentBehind"


\* branch = branchOverride; if (!branch) branch = meta?.branch
rememberedBranch(forced, m) ==
    IF forced # Undefined THEN forced
    ELSE IF m # Null THEN m.branch ELSE Undefined

\* The target directory does not exist: select the branch and clone.
\* chosen is what the branch chooser returns, sorted whether the sorted
\* listing of the branches succeeds, failAt the command that exits with a
\* non-zero code (0: none).
HandleAbsent(forced, r) ==
    /\ pc = "handle" /\ targetDir \notin fs.repos
    /\ \E sorted \in Asked(forced = Undefined, BOOLEAN) :
       \E chosen \in Asked(forced = Undefined, BranchPicks(r)) :
         LET b == selectBranch(forced, chosen)
             f == ensureOwnerDir(fs, ownerDir)
             select == lsRemote(forced, sorted)
             plan == select \o cloneRepo
             FailPoints == IF b = Canceled THEN {0} \cup Throwing(select)
                           ELSE Outcomes({0} \cup Throwing(plan), plan, r, b)
         IN  \E failAt \in FailPoints :
               IF Threw(Execute(plan, failAt)) \/ b = Canceled
               THEN /\ fs' = f
                    /\ pc' = "failed"
                    /\ Unwind
                    /\ UNCHANGED history
               ELSE /\ fs' = mkdirRepo(f, targetDir)
                    /\ steps' = Execute(plan, failAt)
                    /\ branchOverride' = forced
                    /\ branch' = b
                    /\ clonedAt' = now
                    /\ history' = appendHistory(history, FullName(repo.owner, repo.repo))
                    /\ lifecycle' = "Absent"
                    /\ gitOp' = "clone"
                    /\ offered' = IF forced = Undefined THEN ordered(r) ELSE <<>>
                    /\ origin' = r
                    /\ checkedOut' = Undefined
                    /\ pc' = "write"
                    /\ UNCHANGED <<meta, status>>
    /\ UNCHANGED <<cfgVars, now, command, repoInput, repo, selected, scanned, histMark>>
    /\ UNCHANGED gitVars

\* What the user answers to the Enter/Tab prompt of readSingleKey; Ctrl-C
\* makes readSingleKey end the process.
Keys == {"enter", "tab", "ctrl-c"}

\* Variant of decide that asks Enter/Tab whatever the status.
decideAsking(st, key, hasLocal) ==
    <<Ran("prompt")>>
    \o (IF key = "tab" THEN pullRepo(hasLocal) ELSE checkoutBranch(hasLocal))

\* Variant of decide that pulls whatever the answer.
decidePulling(st, key, hasLocal) ==
    IF st.behind = 0 THEN checkoutBranch(hasLocal)
    ELSE <<Ran("prompt")>> \o pullRepo(hasLocal)

\* spoon, after the status check: up to date, check the branch out; else
\* ask Enter/Tab and pull on Tab, check out otherwise.
decide(st, key, hasLocal) ==
    IF st.behind = 0 THEN checkoutBranch(hasLocal)
    ELSE <<Ran("prompt")>>
         \o (IF key = "tab" THEN pullRepo(hasLocal) ELSE checkoutBranch(hasLocal))

\* Variant of statusBranchOf that takes the checked-out branch first.
statusBranchCurrentFirst(remembered, current) ==
    IF current # Undefined THEN current
    ELSE IF remembered # Undefined THEN remembered
    ELSE "main"

\* branch ?? (await getCurrentBranch(targetDir)) ?? "main"
statusBranchOf(remembered, current) ==
    IF remembered # Undefined THEN remembered
    ELSE IF current # Undefined THEN current
    ELSE "main"

\* spoon: the target directory exists.  run is what the status check meets,
\* current what getCurrentBranch returns (Undefined: null, the command
\* failed or printed nothing), r the remote, key
\* the answer to the Enter/Tab prompt (read only when the status is not "up
\* to date"), hasLocal whether the branch exists locally, failAt the command
\* that exits with a non-zero code (0: none).
HandlePresentSpoon(forced, run, r) ==
    /\ pc = "handle" /\ tool = "spoon" /\ targetDir \in fs.repos
    /\ LET m == readMeta(fs, targetDir)
           remembered == rememberedBranch(forced, m)
           st == describeRepoStatus(run)
       IN  \E current \in Asked(remembered = Undefined, Branches \cup {Undefined}),
              key \in Asked(st.behind # 0, Keys),
              hasLocal \in BOOLEAN :
             LET statusBranch == statusBranchOf(remembered, current)
                 wantsUpdate == st.behind # 0 /\ key = "tab"
                 plan == decide(st, key, hasLocal)
             IN  \E failAt \in Outcomes({0} \cup Throwing(plan), plan, r, statusBranch) :
                   IF st.behind # 0 /\ key = "ctrl-c"
                   THEN pc' = "interrupted" /\ Unwind
                   ELSE IF Threw(Execute(plan, failAt))
                   THEN pc' = "failed" /\ Unwind
                   ELSE /\ steps' = Execute(plan, failAt)
                        /\ offered' = <<>>
                        /\ origin' = IF hasLocal THEN Null ELSE r
                        /\ checkedOut' = IF remembered = Undefined THEN current ELSE Undefined
                        /\ branchOverride' = forced
                        /\ clonedAt' = IF m # Null THEN m.clonedAt ELSE NoTime
                        /\ branch' = statusBranch
                        /\ status' = st
                        /\ lifecycle' = Lifecycle(st)
                        /\ gitOp' = IF wantsUpdate THEN "pull" ELSE "checkout"
                        /\ meta' = m
                        /\ pc' = "write"
    /\ UNCHANGED <<cfgVars, now, fsVars, command, repoInput, repo, selected, scanned,
                   histMark>>
    /\ UNCHANGED gitVars


\* gain: the target directory exists.  key answers the Enter/Tab prompt,
\* actions is the multiselect of the edit options ({Canceled} when canceled),
\* chosen what the branch chooser returns, mode what chooseUpdateMode
\* returns; sorted, hasLocal and failAt as above.
HandlePresentGain(forced, key, r) ==
    /\ pc = "handle" /\ tool = "gain" /\ targetDir \in fs.repos
    /\ \E actions \in Asked(key = "tab", (SUBSET {"update", "branch"}) \cup {{Canceled}}) :
       LET m == readMeta(fs, targetDir)
           remembered == rememberedBranch(forced, m)
           wantsEdit == key = "tab"
           wantsUpdate == wantsEdit /\ "update" \in actions
           wantsBranch == wantsEdit /\ ("branch" \in actions \/ forced # Undefined)
           selects == IF wantsEdit THEN wantsBranch \/ remembered = Undefined
                      ELSE remembered = Undefined
           removed == removeDir(fs, targetDir)
       IN  IF key = "ctrl-c"
           THEN pc' = "interrupted" /\ Unwind /\ UNCHANGED fsVars
           ELSE IF wantsEdit /\ actions = {Canceled}
           THEN pc' = "done" /\ Unwind /\ UNCHANGED fsVars
           ELSE
             \E sorted \in Asked(selects /\ remembered = Undefined, BOOLEAN),
                mode \in Asked(wantsUpdate, {"pull", "reclone", Canceled}) :
              \E hasLocal \in Asked(~(wantsUpdate /\ mode = "reclone"), BOOLEAN) :
              \E chosen \in Asked(selects /\ remembered = Undefined, BranchPicks(r)) :
               LET b == IF selects THEN selectBranch(remembered, chosen) ELSE remembered
                   reclones == wantsUpdate /\ mode = "reclone"
                   asksRemote == (selects /\ remembered = Undefined) \/ reclones \/ ~hasLocal
                   canceled == b = Canceled \/ (wantsUpdate /\ mode = Canceled)
                   select == <<Ran("prompt")>>
                             \o (IF selects THEN lsRemote(remembered, sorted) ELSE <<>>)
                   plan == select
                           \o (IF reclones THEN cloneRepo
                               ELSE IF wantsUpdate THEN pullRepo(hasLocal)
                               ELSE checkoutBranch(hasLocal))
                   FailPoints == IF canceled THEN {0} \cup Throwing(select)
                                 ELSE Outcomes({0} \cup Throwing(plan), plan, r, b)
               IN  \E failAt \in FailPoints :
                     IF Threw(Execute(plan, failAt)) \/ canceled
                     THEN /\ fs' = IF reclones /\ failAt = Len(plan) THEN removed ELSE fs
                          /\ pc' = "failed"
                          /\ Unwind
                          /\ UNCHANGED history
                     ELSE /\ steps' = Execute(plan, failAt)
                          /\ offered' = IF selects /\ remembered = Undefined THEN ordered(r)
                                        ELSE <<>>
                          /\ origin' = IF asksRemote THEN r ELSE Null
                          /\ checkedOut' = Undefined
                          /\ branchOverride' = forced
                          /\ branch' = b
                          /\ lifecycle' = "Present"
                          /\ meta' = m
                          /\ pc' = "write"
                          /\ UNCHANGED status
                          /\ IF reclones
                             THEN /\ fs' = mkdirRepo(removed, targetDir)
                                  /\ clonedAt' = now
                                  /\ history' = appendHistory(history,
                                                    FullName(repo.owner, repo.repo))
                                  /\ gitOp' = "reclone"
                             ELSE /\ clonedAt' = IF m # Null THEN m.clonedAt ELSE NoTime
                                  /\ gitOp' = IF wantsUpdate THEN "pull" ELSE "checkout"
                                  /\ UNCHANGED fsVars
    /\ UNCHANGED <<cfgVars, now, command, repoInput, repo, selected, scanned, histMark>>
    /\ UNCHANGED gitVars

\* Variant of newMeta that ignores the clonedAt read from the old metadata.
newMetaFresh(clock) ==
    [repoUrl |-> repo.url,
     repoFullName |-> FullName(repo.owner, repo.repo),
     branch |-> IF branch # Undefined THEN branch ELSE DEFAULT_BRANCH,
     clonedAt |-> clock,
     lastAccess |-> clock]

\* const now = new Date().toISOString(); const meta = {...}; writeMeta
newMeta(clock) ==
    [repoUrl |-> repo.url,
     repoFullName |-> FullName(repo.owner, repo.repo),
     branch |-> IF branch # Undefined THEN branch ELSE DEFAULT_BRANCH,
     clonedAt |-> IF clonedAt # NoTime THEN clonedAt ELSE clock,
     lastAccess |-> clock]

\* Variant of WriteMeta that goes on to the launch without writing.
WriteMetaSkipped ==
    /\ pc = "write"
    /\ meta' = newMeta(now)
    /\ pc' = "launch"
    /\ status' = Null /\ steps' = <<>> /\ offered' = <<>> /\ origin' = Null /\ checkedOut' = Undefined
    /\ UNCHANGED <<cfgVars, now, fsVars, argVars, repo, branch, clonedAt, selected,
                   lifecycle, gitOp, scanned, histMark>>
    /\ UNCHANGED gitVars

WriteMeta ==
    /\ pc = "write"
    /\ meta' = newMeta(now)
    /\ fs' = writeMeta(fs, targetDir, meta')
    /\ pc' = "launch"
    /\ status' = Null /\ steps' = <<>> /\ offered' = <<>> /\ origin' = Null /\ checkedOut' = Undefined
    /\ UNCHANGED <<cfgVars, now, history, argVars, repo, branch, clonedAt, selected,
                   lifecycle, gitOp, scanned, histMark>>
    /\ UNCHANGED gitVars

\* Variant of Launch that rewrites the metadata whatever the exit code.
LaunchRewriting(exitCode) ==
    /\ pc = "launch"
    /\ fs' = writeMeta(fs, targetDir, updateMetaAccess(meta, branch, now))
    /\ IF exitCode = 0
       THEN /\ pc' = "post"
            /\ branchOverride' = Undefined /\ lifecycle' = Undefined /\ gitOp' = Undefined
            /\ status' = Null /\ steps' = <<>> /\ offered' = <<>> /\ origin' = Null /\ checkedOut' = Undefined
            /\ UNCHANGED <<branch, clonedAt, meta>>
       ELSE pc' = "failed" /\ Unwind
    /\ UNCHANGED <<cfgVars, now, history, command, repoInput, repo, selected, scanned,
                   histMark>>
    /\ UNCHANGED gitVars

\* launchTarget (launchProvider): the launched command exits.
Launch(exitCode) ==
    /\ pc = "launch"
    /\ IF exitCode = 0
       THEN /\ pc' = "post"
            /\ branchOverride' = Undefined /\ lifecycle' = Undefined /\ gitOp' = Undefined
            /\ status' = Null /\ steps' = <<>> /\ offered' = <<>> /\ origin' = Null /\ checkedOut' = Undefined
            /\ UNCHANGED <<branch, clonedAt, meta>>
       ELSE pc' = "failed" /\ Unwind
    /\ UNCHANGED <<cfgVars, now, fsVars, command, repoInput, repo, selected, scanned,
                   histMark>>
    /\ UNCHANGED gitVars

\* writeMeta(targetDir, updateMetaAccess(meta, branch ?? "main"))
PostLaunch ==
    /\ pc = "post"
    /\ fs' = writeMeta(fs, targetDir,
                       updateMetaAccess(meta, IF branch # Undefined THEN branch
                                              ELSE DEFAULT_BRANCH, now))
    /\ pc' = "done"
    /\ Unwind
    /\ UNCHANGED <<cfgVars, now, history, command, repoInput, repo, selected, scanned,
                   histMark>>
    /\ UNCHANGED gitVars

\* process.exit, or the end of main: the exit code of the process at the
\* end of an invocation: 1 from the catch of main, 0 when main returns and
\* from process.exit(0) in readSingleKey.
NoExit == -5
processExit ==
    IF pc = "failed" THEN 1
    ELSE IF pc \in {"done", "interrupted"} THEN 0
    ELSE NoExit

\* The process exits, with the code processExit.
Exit ==
    /\ pc \in {"done", "failed", "interrupted"}
    /\ pc' = "idle"
    /\ command' = Undefined /\ repoInput' = <<>> /\ branchOverride' = Undefined
    /\ repo' = Null /\ branch' = Undefined /\ clonedAt' = NoTime /\ meta' = Null
    /\ selected' = Null
    /\ lifecycle' = Undefined /\ gitOp' = Undefined /\ scanned' = NoScan
    /\ status' = Null /\ steps' = <<>> /\ offered' = <<>> /\ origin' = Null /\ checkedOut' = Undefined
    /\ histMark' = Len(history)
    /\ UNCHANGED <<cfgVars, now, fsVars>>
    /\ UNCHANGED gitVars

\* The clock advances: between invocations, between the two readings of the
\* clock in handleRepo, and while the launched command runs.
Tick ==
    /\ pc \in {"idle", "write", "launch", "picklaunch"}
    /\ now < MaxTime
    /\ now' = now + 1
    /\ UNCHANGED <<cfgVars, fsVars, pc, argVars, locVars, obsVars>>
    /\ UNCHANGED gitVars

ExitCodes == {0, 1}

Next ==
    \/ /\ pc = "idle"
       /\ \E c \in {"pick", "run", "ls", "remove", "config"} : Invoke(c)
    \/ \E ok \in BOOLEAN : SpoonConfig(ok)
    \/ RunPurge
    \/ \E ttl \in TtlChoices : GainConfig(ttl)
    \/ /\ pc = "dispatch" /\ command = "remove"
       /\ \E canceled \in BOOLEAN, selection \in RemoveChoices(fs) : RunRemove(canceled, selection)
    \/ RunLs
    \/ LaunchTargetFails
    \/ \E canceled \in BOOLEAN : PickNone(canceled)
    \/ /\ pc = "dispatch" /\ command = "pick"
       /\ \E e \in {x \in collectRepos(fs) : x.path \in UserLocs} : PickSpoon(e) \/ PickGain(e)
    \/ \E exitCode \in ExitCodes : GainPickLaunched(exitCode)
    \/ /\ pc = "dispatch" /\ command = "run"
       /\ \E input \in RunInputs : RunResolve(input)
    \/ CallHandleRepo
    \/ /\ pc = "handle"
       /\ \E forced \in BranchOptions, r \in UsualRemotes :
            \/ HandleAbsent(forced, r)
            \/ \E run \in StatusRuns : HandlePresentSpoon(forced, run, r)
            \/ \E key \in Keys : HandlePresentGain(forced, key, r)
    \/ WriteMeta
    \/ \E exitCode \in ExitCodes : Launch(exitCode)
    \/ PostLaunch
    \/ Exit
    \/ Tick

Spec == Init /\ [][Next]_vars

\* ------------------------------------------------- resolveRepo on its own
\* The run command as it reaches resolveRepo, for caches and histories that
\* earlier invocations may have left: the user's repository cached or not,
\* MaxLog lines logged for repositories whose names hold "r1" as the
\* repository name, in another case, or as the owner; syncHistory and
\* purgeOnInvoke have run.
MaxLog == 2
SampleLogs ==
    LET LogNames == {FullName(<<"o1">>, <<"r1">>), FullName(<<"o1">>, <<"R1">>),
                     FullName(<<"r1">>, <<"o1">>)}
    IN  UNION {{[i \in 1..n |-> HistoryEntry(names[i])] : names \in [1..n -> LogNames]} :
               n \in 0..MaxLog}
SampleCache(n, cached) ==
    [base |-> TRUE,
     owners |-> {OwnerOf(d) : d \in FillLocs(n) \cup cached},
     repos |-> FillLocs(n) \cup cached,
     meta |-> [d \in Locs |-> IF d \in FillLocs(n) \cup cached THEN FillMeta(d) ELSE Null]]

ResolveInit ==
    /\ tool \in {"spoon", "gain"}
    /\ ttlMs \in TtlChoices
    /\ now = 0
    /\ \E n \in {0, 1}, cached \in SUBSET UserLocs, log \in SampleLogs :
          /\ fs = SampleCache(n, cached)
          /\ history = syncHistory(fs, log)
          /\ histMark = Len(log)
    /\ pc = "dispatch" /\ command = "run"
    /\ repoInput = <<>> /\ branchOverride = Undefined
    /\ repo = Null /\ branch = Undefined /\ clonedAt = NoTime /\ meta = Null /\ selected = Null
    /\ lifecycle = Undefined /\ gitOp = Undefined
    /\ scanned = Cardinality(collectRepos(fs))
    /\ status = Null /\ steps = <<>> /\ offered = <<>> /\ origin = Null /\ checkedOut = Undefined
    /\ work = Null /\ runs = <<>>

NextResolve ==
    \/ /\ pc = "dispatch" /\ command = "run"
       /\ \E input \in ResolveInputs : RunResolve(input)
    \/ CallHandleRepo

SpecResolve == ResolveInit /\ [][NextResolve]_vars

\* -------------------------------------------------- handleRepo on its own
\* handleRepo as the run command calls it for the user's repository, against
\* every remote of Remotes: the repository not cached, cached with main or
\* dev remembered, or cached with its metadata file missing.
HandleCaches ==
    LET d == CHOOSE d \in UserLocs : TRUE
        cached == SampleCache(1, UserLocs)
    IN  {SampleCache(1, {}), cached,
         [cached EXCEPT !.meta[d].branch = "dev"],
         [cached EXCEPT !.meta[d] = Null]}

HandleStart(caches) ==
    /\ tool \in {"spoon", "gain"}
    /\ ttlMs \in TtlChoices
    /\ now = 0
    /\ fs \in caches
    /\ history = syncHistory(fs, <<>>)
    /\ histMark = 0
    /\ pc = "handle" /\ command = "run"
    /\ repoInput = <<>> /\ branchOverride = Undefined
    /\ repo = parseRepoSlug(<<"o1", Slash, "r1">>)
    /\ branch = Undefined /\ clonedAt = NoTime /\ meta = Null /\ selected = Null
    /\ lifecycle = Undefined /\ gitOp = Undefined
    /\ scanned = Cardinality(collectRepos(fs))
    /\ status = Null /\ steps = <<>> /\ offered = <<>> /\ origin = Null /\ checkedOut = Undefined
    /\ work = Null /\ runs = <<>>

NextHandle ==
    \/ /\ pc = "handle"
       /\ \E forced \in BranchOptions, r \in Remotes :
            \/ HandleAbsent(forced, r)
            \/ \E run \in StatusRuns : HandlePresentSpoon(forced, run, r)
            \/ \E key \in Keys : HandlePresentGain(forced, key, r)
    \/ WriteMeta

SpecHandle == HandleStart(HandleCaches) /\ [][NextHandle]_vars

\* ------------------------------------------------------- crash mid-write
\* writeFileSync truncates the file and then writes the text: a process
\* that dies in between leaves a file JSON.parse throws on.
tearAll(f, dir) == [f EXCEPT !.meta = [d \in DOMAIN @ |-> IF d \in f.repos THEN Torn ELSE @[d]]]

tear(f, dir) == [f EXCEPT !.meta[dir] = Torn]

\* The process dies while handleRepo writes the metadata file, before or
\* after the launch.
Crash ==
    /\ pc \in {"write", "post"}
    /\ fs' = tear(fs, targetDir)
    /\ pc' = "idle"
    /\ command' = Undefined /\ repoInput' = <<>> /\ branchOverride' = Undefined
    /\ repo' = Null /\ branch' = Undefined /\ clonedAt' = NoTime /\ meta' = Null
    /\ selected' = Null
    /\ lifecycle' = Undefined /\ gitOp' = Undefined /\ scanned' = NoScan
    /\ status' = Null /\ steps' = <<>> /\ offered' = <<>> /\ origin' = Null
    /\ checkedOut' = Undefined
    /\ histMark' = Len(history)
    /\ UNCHANGED <<cfgVars, now, history>>
    /\ UNCHANGED gitVars

\* The caches handleRepo is called on, and one more in which a second
\* directory holds no metadata file.
CrashCaches ==
    LET d == FullName(<<FillOwner>>, <<FillNames[2]>>)
    IN  HandleCaches
        \cup {[f EXCEPT !.repos = @ \cup {d}] : f \in HandleCaches}

\* handleRepo with a process that may die in writeMeta, followed by
\* invocations of ls, which scan the cache.
NextCrash ==
    \/ /\ pc = "handle"
       /\ \E forced \in BranchOptions, r \in UsualRemotes :
            \/ HandleAbsent(forced, r)
            \/ \E run \in StatusRuns : HandlePresentSpoon(forced, run, r)
            \/ \E key \in Keys : HandlePresentGain(forced, key, r)
    \/ WriteMeta
    \/ \E exitCode \in ExitCodes : Launch(exitCode)
    \/ PostLaunch
    \/ Crash
    \/ Exit
    \/ Invoke("ls")
    \/ RunPurge
    \/ RunLs

SpecCrash == HandleStart(CrashCaches) /\ [][NextCrash]_vars

\* ------------------------------------------------------- the working copy
\* The git repository in targetDir.  local: the branches refs/heads/<b> with
\* the commit each points at, as pairs <<b, tip>>; tracked: the same for
\* refs/remotes/origin/<b>; mapped: the branches the fetch refspec of origin
\* covers (git clone --single-branch configures the cloned branch alone);
\* head: the branch checked out, Undefined when HEAD is detached.  Commits
\* are numbered 0..MaxTip along the history; every branch of the remote is
\* at MaxTip.
MaxTip == 1

HasRef(refs, b) == \E t \in (0..MaxTip) : <<b, t>> \in refs
TipOf(refs, b) == CHOOSE t \in (0..MaxTip) : <<b, t>> \in refs

\* git clone --branch <b> --single-branch
cloned(b) ==
    [head |-> b, local |-> {<<b, MaxTip>>}, tracked |-> {<<b, MaxTip>>}, mapped |-> {b}]

\* Whether the git command exits with code 0 in the working copy w.
gitCan(w, r, b, cmd) ==
    IF cmd = "show-ref" THEN HasRef(w.local, b)
    ELSE IF cmd \in {"clone", "fetch origin <branch>"} THEN HasBranch(r, b)
    ELSE IF cmd = "checkout -b" THEN ~HasRef(w.local, b) /\ HasRef(w.tracked, b)
    ELSE IF cmd = "checkout" THEN HasRef(w.local, b)
    ELSE IF cmd \in {"pull --ff-only", "pull"}
    THEN w.head # Undefined /\ w.head \in w.mapped /\ HasBranch(r, w.head)
    ELSE TRUE

\* git fetch: the remote-tracking branches of the fetched branches that the
\* refspec covers move to the tips of the remote.
fetched(w, r, fetching) ==
    LET Moves(b) == b \in fetching /\ b \in w.mapped /\ HasBranch(r, b)
    IN  [w EXCEPT !.tracked = {x \in @ : ~Moves(x[1])}
                              \cup {<<b, MaxTip>> : b \in {c \in Branches : Moves(c)}}]

\* The working copy after the git command has exited with code 0.
gitDo(w, r, b, cmd) ==
    LET SetRef(refs, c, t) == {x \in refs : x[1] # c} \cup {<<c, t>>}
    IN
    IF cmd = "clone" THEN cloned(b)
    ELSE IF cmd = "fetch origin <branch>" THEN fetched(w, r, {b})
    ELSE IF cmd = "fetch origin" THEN fetched(w, r, Branches)
    ELSE IF cmd = "checkout -b"
    THEN [w EXCEPT !.local = SetRef(@, b, TipOf(w.tracked, b)), !.head = b]
    ELSE IF cmd = "checkout" THEN [w EXCEPT !.head = b]
    ELSE IF cmd \in {"pull --ff-only", "pull"}
    THEN [fetched(w, r, {w.head}) EXCEPT !.local = SetRef(@, w.head, MaxTip)]
    ELSE w

\* The commands of a plan run in order in the working copy: failAt is the
\* first one that was to succeed and exits with a non-zero code (0: none),
\* work the working copy it leaves.
RECURSIVE gitRun(_, _, _, _, _)
gitRun(w, r, b, plan, i) ==
    IF i > Len(plan) THEN [work |-> w, failAt |-> 0]
    ELSE IF ~plan[i].ok THEN gitRun(w, r, b, plan, i + 1)
    ELSE IF ~gitCan(w, r, b, plan[i].cmd) THEN [work |-> w, failAt |-> i]
    ELSE gitRun(gitDo(w, r, b, plan[i].cmd), r, b, plan, i + 1)

\* ---------------------------------------------- checkoutBranch on its own
\* checkoutBranch and pullRepo applied, one call after the other, to the
\* working copies a cache directory can hold.
SampleWorks ==
    LET RefSets == {refs \in SUBSET (Branches \X (0..MaxTip)) :
                       \A x, y \in refs : x[1] = y[1] => x = y}
        Works == {[head |-> h, local |-> l, tracked |-> t, mapped |-> m] :
                     h \in Branches \cup {Undefined}, l \in RefSets, t \in RefSets,
                     m \in {{"main"}, {"dev"}, Branches}}
    IN  {w \in Works : w.head = Undefined \/ HasRef(w.local, w.head)}

CheckoutStart ==
    /\ tool \in {"spoon", "gain"}
    /\ ttlMs \in TtlChoices
    /\ now = 0
    /\ fs = SampleCache(0, UserLocs)
    /\ history = syncHistory(fs, <<>>)
    /\ histMark = 0
    /\ pc = "handle" /\ command = "run"
    /\ repoInput = <<>> /\ branchOverride = Undefined
    /\ repo = parseRepoSlug(<<"o1", Slash, "r1">>)
    /\ branch = Undefined /\ clonedAt = NoTime /\ meta = Null /\ selected = Null
    /\ lifecycle = Undefined /\ gitOp = Undefined
    /\ scanned = Cardinality(collectRepos(fs))
    /\ status = Null /\ steps = <<>> /\ offered = <<>> /\ checkedOut = Undefined
    /\ origin \in Remotes
    /\ work \in SampleWorks
    /\ runs = <<>>

\* One call of checkoutBranch(targetDir, b), or of pullRepo(targetDir, b).
CallGit(op, b) ==
    /\ pc = "handle"
    /\ LET hasLocal == HasRef(work.local, b)
           plan == IF op = "pull" THEN pullRepo(hasLocal) ELSE checkoutBranch(hasLocal)
           out == gitRun(work, origin, b, plan, 1)
       IN  /\ work' = out.work
           /\ steps' = Execute(plan, out.failAt)
    /\ gitOp' = op
    /\ branch' = b
    /\ UNCHANGED <<cfgVars, now, fsVars, pc, argVars, repo, clonedAt, meta, selected,
                   lifecycle, status, offered, origin, checkedOut, scanned, histMark, runs>>

NextCheckout == \E op \in {"checkout", "pull"}, b \in Branches : CallGit(op, b)

SpecCheckout == CheckoutStart /\ [][NextCheckout]_vars

\* ------------------------------------- two invocations on one repository
\* spoon's handleRepo called by two processes for the same repository: each
\* has its own parameters and locals (runs[p]); the directory, its metadata
\* file and its working copy are shared, and nothing locks them.  The steps
\* of one call: the status check, the git operation, writeMeta, the launch,
\* the second writeMeta; the steps of the two calls interleave freely.
Procs == {1, 2}

\* What describeRepoStatus meets in the working copy w for the branch b:
\* localRef is refs/heads/<b> when it exists, HEAD otherwise (a detached
\* HEAD is taken to be at the first commit).
statusRun(w, r, b) ==
    LET localTip == IF HasRef(w.local, b) THEN TipOf(w.local, b)
                    ELSE IF w.head # Undefined THEN TipOf(w.local, w.head)
                    ELSE 0
        after == fetched(w, r, {b})
        tracks == HasRef(after.tracked, b)
        ahead == IF tracks THEN TipOf(after.tracked, b) - localTip ELSE 0
    IN  [fetch |-> HasBranch(r, b),
         tracked |-> HasBranch(r, b) /\ tracks,
         count |-> IF HasBranch(r, b) /\ tracks /\ ahead > 0 THEN ahead ELSE 0]

\* const meta: RepoMeta = {...} of the call p
metaOf(run, clock) ==
    [repoUrl |-> repo.url,
     repoFullName |-> FullName(repo.owner, repo.repo),
     branch |-> IF run.branch # Undefined THEN run.branch ELSE DEFAULT_BRANCH,
     clonedAt |-> IF run.clonedAt # NoTime THEN run.clonedAt ELSE clock,
     lastAccess |-> clock]

raceVars ==
    <<cfgVars, now, pc, argVars, locVars, lifecycle, gitOp, status, steps, offered, origin,
      checkedOut, scanned, histMark>>

\* handleRepo is called: the directory exists, and the status is checked;
\* or it does not, and the branch is selected and cloned.
Enter(p, forced) ==
    /\ runs[p].pc = "off"
    /\ IF targetDir \in fs.repos
       THEN LET m == readMeta(fs, targetDir)
                remembered == rememberedBranch(forced, m)
                statusBranch == statusBranchOf(remembered, work.head)
                run == statusRun(work, origin, statusBranch)
            IN  /\ work' = IF run.fetch THEN fetched(work, origin, {statusBranch}) ELSE work
                /\ runs' = [runs EXCEPT ![p] =
                              [pc |-> "git", forced |-> forced, branch |-> statusBranch,
                               clonedAt |-> IF m # Null THEN m.clonedAt ELSE NoTime,
                               meta |-> m, status |-> describeRepoStatus(run)]]
                /\ fs' = ensureOwnerDir(fs, ownerDir)
                /\ UNCHANGED history
       ELSE \E chosen \in Asked(forced = Undefined, BranchPicks(origin)) :
              LET b == selectBranch(forced, chosen)
                  f == ensureOwnerDir(fs, ownerDir)
              IN  IF b = Canceled \/ ~gitCan(work, origin, b, "clone")
                  THEN /\ runs' = [runs EXCEPT ![p].pc = "failed"]
                       /\ fs' = f
                       /\ UNCHANGED <<work, history>>
                  ELSE /\ runs' = [runs EXCEPT ![p] =
                                     [pc |-> "write", forced |-> forced, branch |-> b,
                                      clonedAt |-> now, meta |-> Null, status |-> Null]]
                       /\ fs' = mkdirRepo(f, targetDir)
                       /\ work' = gitDo(work, origin, b, "clone")
                       /\ history' = appendHistory(history, FullName(repo.owner, repo.repo))
    /\ UNCHANGED raceVars

\* The git operation of the call p in the shared working copy.
Git(p, key) ==
    /\ runs[p].pc = "git"
    /\ key \in Asked(runs[p].status.behind # 0, Keys)
    /\ LET b == runs[p].branch
           plan == decide(runs[p].status, key, HasRef(work.local, b))
           out == gitRun(work, origin, b, plan, 1)
       IN  IF runs[p].status.behind # 0 /\ key = "ctrl-c"
           THEN runs' = [runs EXCEPT ![p].pc = "interrupted"] /\ UNCHANGED work
           ELSE /\ work' = out.work
                /\ runs' = [runs EXCEPT ![p].pc = IF out.failAt = 0 THEN "write" ELSE "failed"]
    /\ UNCHANGED <<fsVars, raceVars>>

\* writeMeta(targetDir, meta) of the call p
Write(p) ==
    /\ runs[p].pc = "write"
    /\ LET m == metaOf(runs[p], now)
       IN  /\ fs' = writeMeta(fs, targetDir, m)
           /\ runs' = [runs EXCEPT ![p].pc = "launch", ![p].meta = m]
    /\ UNCHANGED <<history, work, raceVars>>

\* The command launched by the call p exits.
Launched(p, exitCode) ==
    /\ runs[p].pc = "launch"
    /\ runs' = [runs EXCEPT ![p].pc = IF exitCode = 0 THEN "post" ELSE "failed"]
    /\ UNCHANGED <<fsVars, work, raceVars>>

\* writeMeta(targetDir, updateMetaAccess(meta, branch ?? "main")) of the call p
Post(p) ==
    /\ runs[p].pc = "post"
    /\ fs' = writeMeta(fs, targetDir,
                       updateMetaAccess(runs[p].meta,
                                        IF runs[p].branch # Undefined THEN runs[p].branch
                                        ELSE DEFAULT_BRANCH, now))
    /\ runs' = [runs EXCEPT ![p].pc = "done"]
    /\ UNCHANGED <<history, work, raceVars>>

\* The working copies of the cached repository: a clone of main made by
\* cloneRepo, the same with a branch dev created in it, and a repository
\* with both branches, main behind or not.
RaceInit ==
    LET RaceWorks ==
            {cloned("main"), [cloned("main") EXCEPT !.local = @ \cup {<<"dev", MaxTip>>}]}
            \cup {[head |-> "main", local |-> {<<"main", t>>, <<"dev", MaxTip>>},
                   tracked |-> {<<"main", t>>, <<"dev", MaxTip>>}, mapped |-> Branches] :
                   t \in 0..MaxTip}
    IN
    /\ tool = "spoon"
    /\ ttlMs \in TtlChoices
    /\ now = 0
    /\ fs \in HandleCaches
    /\ history = syncHistory(fs, <<>>)
    /\ histMark = 0
    /\ pc = "handle" /\ command = "run"
    /\ repoInput = <<>> /\ branchOverride = Undefined
    /\ repo = parseRepoSlug(<<"o1", Slash, "r1">>)
    /\ branch = Undefined /\ clonedAt = NoTime /\ meta = Null /\ selected = Null
    /\ lifecycle = Undefined /\ gitOp = Undefined
    /\ scanned = Cardinality(collectRepos(fs))
    /\ status = Null /\ steps = <<>> /\ offered = <<>> /\ checkedOut = Undefined
    /\ origin \in UsualRemotes
    /\ IF targetDir \in fs.repos THEN work \in RaceWorks ELSE work = Null
    /\ runs = [p \in Procs |->
                  [pc |-> "off", forced |-> Undefined, branch |-> Undefined,
                   clonedAt |-> NoTime, meta |-> Null, status |-> Null]]

NextRace ==
    \E p \in Procs :
      \/ \E forced \in BranchOptions : Enter(p, forced)
      \/ \E key \in Keys : Git(p, key)
      \/ Write(p)
      \/ \E exitCode \in ExitCodes : Launched(p, exitCode)
      \/ Post(p)

SpecRace == RaceInit /\ [][NextRace]_vars

\* ---------------------------------------------------- the purge on its own
\* purgeOnInvoke on caches of every kind: one repository less than the floor,
\* last used at time 0, and three more directories (two of the same owner, one of
\* another), each absent, or holding metadata with lastAccess 0, with the
\* latest lastAccess, with a lastAccess that is no time, no metadata file,
\* or one that cannot be parsed; at every time and for every ttlMs in range.
PurgeCaches ==
    LET PurgeDirs ==
            {FullName(<<FillOwner>>, <<FillNames[PURGE_FLOOR]>>),
             FullName(<<FillOwner>>, <<FillNames[PURGE_FLOOR + 1]>>)}
            \cup UserLocs
        fixed == FillLocs(PURGE_FLOOR - 1)
        PurgeCache(kind) ==
          LET there == fixed \cup {d \in PurgeDirs : kind[d] # "absent"}
              MetaIn(d) ==
                  IF d \in fixed \/ kind[d] = "old" THEN FillMeta(d)
                  ELSE IF kind[d] = "recent" THEN [FillMeta(d) EXCEPT !.lastAccess = MaxTime]
                  ELSE IF kind[d] = "undated" THEN [FillMeta(d) EXCEPT !.lastAccess = NaN]
                  ELSE IF kind[d] = "torn" THEN Torn
                  ELSE Null
          IN  [base |-> TRUE,
               owners |-> {OwnerOf(d) : d \in there},
               repos |-> there,
               meta |-> [d \in fixed \cup PurgeDirs |-> IF d \in there THEN MetaIn(d) ELSE Null]]
    IN  {PurgeCache(kind) :
            kind \in [PurgeDirs -> {"absent", "old", "recent", "undated", "bare", "torn"}]}

PurgeInit ==
    /\ tool \in {"spoon", "gain"}
    /\ ttlMs \in 0..MaxTime
    /\ now \in 0..MaxTime
    /\ fs \in PurgeCaches
    /\ history = syncHistory(fs, <<>>)
    /\ histMark = 0
    /\ pc = "purge" /\ command = "ls"
    /\ repoInput = <<>> /\ branchOverride = Undefined
    /\ repo = Null /\ branch = Undefined /\ clonedAt = NoTime /\ meta = Null /\ selected = Null
    /\ lifecycle = Undefined /\ gitOp = Undefined /\ scanned = NoScan
    /\ status = Null /\ steps = <<>> /\ offered = <<>> /\ origin = Null /\ checkedOut = Undefined
    /\ work = Null /\ runs = <<>>

NextPurge == RunPurge

SpecPurge == PurgeInit /\ [][NextPurge]_vars

\* ------------------------------------------------------------- properties
purgeCalled == scanned # NoScan

\* The commands whose non-zero exit the caller catches.
Swallowed == {"show-ref", "ls-remote --sort"}

\* How far the checked-out branch is behind origin after the commands run:
\* a fast-forward pull and a branch created from origin/<branch> are at the
\* remote tip, a plain checkout leaves the branch where it was.
localBehind(st, ran) ==
    IF \E i \in 1..Len(ran) : ran[i].ok /\ ran[i].cmd \in {"pull --ff-only", "checkout -b"}
    THEN 0
    ELSE st.behind

\* removeRepos, initialValues: the paths of the expired entries.
initialValues(f, ttl, clock) == removeOptions(f, ttl, clock)[2]

Age(e) == now - getTime(e.meta.lastAccess)
Expired(e) == Age(e) > ttlMs
PurgeStep == pc = "purge" /\ pc' = "dispatch"
Finished == pc \in {"done", "failed"}

\* C1: when purgeRepos runs, an entry with a parseable lastAccess is deleted
\* if and only if now - lastAccess > ttlMs; an entry aged exactly ttlMs stays.
C1_PurgeIffExpired ==
    [][PurgeStep /\ Cardinality(collectRepos(fs)) >= PURGE_FLOOR =>
         \A e \in collectRepos(fs) :
            isFinite(getTime(e.meta.lastAccess)) =>
               /\ (e.path \notin fs'.repos) <=> (now - getTime(e.meta.lastAccess) > ttlMs)
               /\ Age(e) = ttlMs => e \in collectRepos(fs')]_vars

\* purgeRepos has run over entries aged exactly ttlMs and they are still there.
C1_Witness ==
    /\ pc = "dispatch" /\ scanned >= PURGE_FLOOR
    /\ Cardinality(collectRepos(fs)) = scanned
    /\ \A e \in collectRepos(fs) : Age(e) = ttlMs

\* C2: purgeOnInvoke deletes nothing while fewer than 10 repositories with
\* valid metadata are cached, however old they are; with 10 or more, every
\* expired entry is deleted in that invocation.
C2_PurgeFloor ==
    [][PurgeStep =>
         IF Cardinality(collectRepos(fs)) < PURGE_FLOOR
         THEN fs' = fs
         ELSE \A e \in collectRepos(fs) : Expired(e) => e.path \notin fs'.repos]_vars

\* purgeOnInvoke has scanned fewer than 10 entries and left the expired ones.
C2_Witness ==
    /\ pc = "dispatch" /\ purgeCalled /\ scanned > 0 /\ scanned < PURGE_FLOOR
    /\ Cardinality(collectRepos(fs)) = scanned
    /\ \A e \in collectRepos(fs) : Expired(e)

\* C3 as stated: whatever the command, the purge step has been executed
\* when the invocation ends.
C3_PurgeOnEveryCommand == Finished => purgeCalled

\* C3: for every command but spoon's config (pick, run, ls, remove, and the
\* config of gain) the purge step has been executed when the invocation ends.
C3_PurgeUnlessSpoonConfig ==
    Finished /\ ~(tool = "spoon" /\ command = "config") => purgeCalled

\* gain's config has completed, and the purge step was executed on the way.
C3_Witness == pc = "done" /\ tool = "gain" /\ command = "config" /\ purgeCalled

\* Where removeDir is called (purgeRepos, removeRepos, reclone), for each
\* directory it may be given: the directory is gone, its siblings stay, the
\* owner directory goes exactly when no sibling is left, baseDir stays.
RemoveDirCleansOwner ==
    pc \in {"purge", "dispatch", "handle"} =>
       \A d \in fs.repos :
          LET after == removeDir(fs, d)
              o == OwnerOf(d)
          IN  /\ after.repos = fs.repos \ {d}
              /\ o \in fs.owners => ((o \notin after.owners) <=> (readdirSync(fs, o) = {d}))
              /\ after.owners \ {o} = fs.owners \ {o}
              /\ after.base = fs.base

\* C4: removing a repository directory (TTL eviction or manual removal)
\* removes its owner directory exactly when that is left empty; an owner
\* directory with a sibling entry stays, and baseDir is never removed.
C4_OwnerCleanup ==
    /\ []RemoveDirCleansOwner
    /\ [][\A o \in fs.owners :
             (\E d \in fs.repos \ fs'.repos : OwnerOf(d) = o) =>
                /\ (o \notin fs'.owners) <=> (readdirSync(fs', o) = {})
                /\ fs.base => fs'.base]_vars

\* The remove command has deleted one of the repositories of an owner and
\* the owner directory is still there with the siblings.
C4_Witness ==
    /\ pc = "done" /\ command = "remove"
    /\ Cardinality(readdirSync(fs, <<FillOwner>>)) = MaxFill - 1
    /\ <<FillOwner>> \in fs.owners /\ fs.base


\* The entries for name appended since the invocation started.
AppendedFor(name) ==
    Cardinality({i \in (histMark + 1)..Len(history) : history[i].repoFullName = name})
RepoName == FullName(repo.owner, repo.repo)
FirstWritten == pc = "launch" /\ lifecycle = "Absent"

\* C5 as stated: the RepoMeta first written for a repository found Absent
\* has clonedAt = lastAccess, and exactly one HistoryEntry was appended for
\* the repository during the invocation.
C5_FirstMetaEqualStamps ==
    FirstWritten =>
       /\ fs.meta[targetDir].clonedAt = fs.meta[targetDir].lastAccess
       /\ AppendedFor(RepoName) = 1

\* C5: the RepoMeta first written for a repository found Absent has the
\* clonedAt read after the clone and a lastAccess read later, so
\* clonedAt <= lastAccess; handleRepo appends exactly one HistoryEntry for
\* the repository.
C5_FirstMetaOrderedStamps ==
    /\ [](FirstWritten =>
            /\ fs.meta[targetDir].clonedAt = clonedAt
            /\ fs.meta[targetDir].clonedAt <= fs.meta[targetDir].lastAccess
            /\ fs.meta[targetDir].lastAccess <= now)
    /\ [][pc = "handle" /\ lifecycle' = "Absent" =>
            history' = Append(history, HistoryEntry(RepoName))]_vars

\* The first RepoMeta of a cloned repository with clonedAt before lastAccess.
C5_Witness ==
    /\ FirstWritten
    /\ fs.meta[targetDir].clonedAt < fs.meta[targetDir].lastAccess
    /\ AppendedFor(RepoName) = 1

ClonedAtKeptByStep ==
    \A d \in Locs :
       fs.meta[d] # Null /\ fs'.meta[d] # Null => fs'.meta[d].clonedAt = fs.meta[d].clonedAt
Rewrites == pc = "write" /\ pc' = "launch" /\ meta # Null

\* C6 as stated: the clonedAt stored for a repository never changes, whether
\* it is reused, checked out, pulled, recloned or launched.
C6_ClonedAtImmutable ==
    [][ClonedAtKeptByStep /\ (Rewrites => meta'.clonedAt = meta.clonedAt)]_vars

\* C6: the clonedAt stored for a repository never changes when it is reused,
\* checked out, pulled or launched; a reclone stores a new clonedAt.
C6_ClonedAtKeptButReclone ==
    [][/\ ClonedAtKeptByStep
       /\ Rewrites /\ gitOp # "reclone" => meta'.clonedAt = meta.clonedAt
       /\ Rewrites /\ gitOp = "reclone" => meta'.clonedAt = clonedAt]_vars

\* A cached repository has been reused after its clone: the metadata is
\* rewritten with the old clonedAt and a later lastAccess.
C6_Witness ==
    /\ pc = "launch" /\ gitOp \in {"checkout", "pull"} /\ clonedAt # NoTime
    /\ fs.meta[targetDir].clonedAt = clonedAt
    /\ fs.meta[targetDir].clonedAt < fs.meta[targetDir].lastAccess

\* C7: every RepoMeta in the cache has clonedAt <= lastAccess.
C7_ClonedBeforeAccess ==
    \A d \in Locs : fs.meta[d] # Null => fs.meta[d].clonedAt <= fs.meta[d].lastAccess

\* A launch has ended and the metadata was rewritten with a later lastAccess.
C7_Witness ==
    /\ pc = "done" /\ command = "run" /\ repo # Null
    /\ fs.meta[targetDir] # Null
    /\ fs.meta[targetDir].clonedAt < fs.meta[targetDir].lastAccess
    /\ fs.meta[targetDir].lastAccess = now

\* C8 as stated: every entry of collectRepos lies at baseDir/<owner>/<repo>
\* with <owner>/<repo> equal to its repoFullName, and no two entries share a
\* repoFullName.
C8_LocationIsFullName ==
    /\ \A e \in collectRepos(fs) : e.meta.repoFullName = e.path
    /\ \A e1, e2 \in collectRepos(fs) :
          e1.meta.repoFullName = e2.meta.repoFullName => e1.path = e2.path

IsPrefix(s, t) == Len(s) <= Len(t) /\ SubSeq(t, 1, Len(s)) = s

\* C9: no step removes or alters an entry of the history: the history before
\* a step is a prefix of the history after it.
C9_HistoryAppendOnly == [][IsPrefix(history, history')]_vars

\* The purge has just emptied a cache of 10 or more repositories, and every
\* evicted repository still has its entry in the history.
C9_Witness ==
    /\ pc = "dispatch" /\ scanned >= PURGE_FLOOR /\ collectRepos(fs) = {}
    /\ \A d \in FillLocs(MaxFill) : \E i \in 1..Len(history) : history[i].repoFullName = d
    /\ \E i \in 1..Len(history) : history[i].repoFullName \in UserLocs

\* C10 as stated: a pick that selects a cached repository and launches
\* successfully has appended exactly one HistoryEntry for that repository.
C10_PickAppendsOne ==
    pc = "done" /\ command = "pick" =>
       /\ repo # Null => AppendedFor(RepoName) = 1
       /\ selected # Null => AppendedFor(selected.meta.repoFullName) = 1

\* Caches and histories around the current ones: the cache itself and the
\* cache in which the metadata of the user's repository carries the
\* repoFullName of another cached repository; the history, the history
\* without its last entry and the empty history.
Caches(f) ==
    {f} \cup {[f EXCEPT !.meta[d].repoFullName = e.meta.repoFullName] :
                 d \in {x.path : x \in collectRepos(f)} \cap UserLocs,
                 e \in {x \in collectRepos(f) : x.path \in FillLocs(1)}}
Histories(h) == {SubSeq(h, 1, n) : n \in {0, Max({0, Len(h) - 1}), Len(h)}}

\* C11: syncHistory is idempotent: a second run right after the first appends
\* nothing, a run only appends, and no entry it appends names a repository
\* that was logged when the run began.
C11_SyncHistoryIdempotent ==
    pc \in {"idle", "purge"} =>
       \A f \in Caches(fs), h \in Histories(history) :
          LET h1 == syncHistory(f, h)
          IN  /\ syncHistory(f, h1) = h1
              /\ IsPrefix(h, h1)
              /\ logged(SubSeq(h1, Len(h) + 1, Len(h1))) \cap logged(h) = {}

\* syncHistory has just appended an entry for a cached repository that was
\* not logged, and a second run would append nothing.
C11_Witness ==
    /\ pc = "purge" /\ Len(history) > histMark
    /\ history[Len(history)].repoFullName \in UserLocs
    /\ syncHistory(fs, history) = history

AllLogged == \A e \in collectRepos(fs) : e.meta.repoFullName \in logged(history)

\* C12 as stated: after syncHistory returns, and at the end of every
\* invocation that ran it, every cached repository has a HistoryEntry with
\* its repoFullName.
C12_AllLoggedAtEnd ==
    /\ pc = "purge" => AllLogged
    /\ Finished /\ purgeCalled => AllLogged

\* C12: after syncHistory returns every cached repository has a HistoryEntry
\* with its repoFullName; a repository cloned during the invocation has one
\* when its RepoMeta is written; at the end of an invocation that ran
\* syncHistory the only cached repository that can lack one is the one
\* handleRepo worked on.
C12_LoggedAfterSync ==
    /\ pc = "purge" => AllLogged
    /\ FirstWritten => targetDir \in fs.repos /\ RepoName \in logged(history)
    /\ Finished /\ purgeCalled =>
          \A e \in collectRepos(fs) :
             \/ e.meta.repoFullName \in logged(history)
             \/ repo # Null /\ e.path = targetDir

\* An invocation that ran syncHistory has ended after cloning a repository,
\* and every cached repository, the cloned one included, is logged.
C12_Witness ==
    /\ pc = "done" /\ purgeCalled /\ repo # Null
    /\ AppendedFor(RepoName) = 1
    /\ targetDir \in {e.path : e \in collectRepos(fs)}
    /\ AllLogged

\* RepoMeta records: what the program builds from the current repository
\* for either branch and equal, different or unparseable timestamps, and
\* the records of the initial cache.
MetaSamples ==
    {[repoUrl |-> repo.url, repoFullName |-> RepoName, branch |-> b,
      clonedAt |-> t[1], lastAccess |-> t[2]] :
        b \in Branches, t \in {<<0, 0>>, <<0, MaxTime>>, <<NaN, NaN>>}}
    \cup {FillMeta(d) : d \in FillLocs(1)}

Decided == pc = "write" /\ status # Null
Cmds(ran) == {ran[i].cmd : i \in 1..Len(ran)}
Pulling == {"fetch origin", "pull --ff-only", "pull"}
Fetching == {"fetch origin", "fetch origin <branch>"}

\* C14: when the status check reports behind = 0 (PresentUpToDate),
\* handleRepo checks the effective branch out without a prompt and without a
\* pull, and goes on to write RepoMeta and launch.
C14_UpToDateSilentCheckout ==
    /\ [](Decided /\ status.behind = 0 =>
            /\ lifecycle = "PresentUpToDate" /\ gitOp = "checkout"
            /\ "prompt" \notin Cmds(steps)
            /\ Cmds(steps) \cap Pulling = {}
            /\ steps[Len(steps)].cmd \in {"checkout", "checkout -b"}
            /\ steps[Len(steps)].ok)
    /\ [][Decided /\ status.behind = 0 /\ pc' # pc => pc' = "launch"]_vars
    /\ [][pc = "launch" /\ lifecycle = "PresentUpToDate" /\ pc' # pc =>
             pc' \in {"post", "failed"}]_vars

\* The status check found the cached repository up to date and the branch
\* was checked out with the two commands of a plain checkout.
C14_Witness ==
    /\ Decided /\ status.behind = 0 /\ status.display = "Up to date"
    /\ steps = <<Ran("show-ref"), Ran("checkout")>>

\* The user was asked and took the default (Enter).
TookDefault == Decided /\ status.behind # 0 /\ gitOp = "checkout"

\* C15 as stated: in PresentBehind the user is prompted, and the default
\* action checks the branch out without pulling: the local branch is not
\* advanced and stays behind by the same count.
C15_DefaultStaysBehind ==
    Decided /\ status.behind > 0 =>
       /\ steps[1] = Ran("prompt")
       /\ TookDefault =>
             /\ Cmds(steps) \cap Pulling = {}
             /\ localBehind(status, steps) = status.behind

\* C15: in PresentBehind the user is prompted, and the default action runs
\* no pull.  When the branch exists locally it is checked out as it is and
\* stays behind by the same count; when it does not, checkoutBranch fetches
\* it and creates it from origin/<branch>, at the remote tip.
C15_DefaultChecksOutOnly ==
    Decided /\ status.behind > 0 =>
       /\ lifecycle = "PresentBehind"
       /\ steps[1] = Ran("prompt")
       /\ TookDefault =>
             /\ Cmds(steps) \cap Pulling = {}
             /\ \/ /\ steps = <<Ran("prompt"), Ran("show-ref"), Ran("checkout")>>
                   /\ localBehind(status, steps) = status.behind
                \/ /\ steps = <<Ran("prompt"), Caught("show-ref"),
                               Ran("fetch origin <branch>"), Ran("checkout -b")>>
                   /\ localBehind(status, steps) = 0

\* The repository is behind, the user took the default, and the existing
\* local branch was checked out where it was.
C15_Witness ==
    /\ TookDefault /\ status.behind = MaxBehind
    /\ steps = <<Ran("prompt"), Ran("show-ref"), Ran("checkout")>>
    /\ localBehind(status, steps) = MaxBehind

\* The user was asked and requested the update (Tab), and it went through.
Updated == Decided /\ status.behind # 0 /\ gitOp = "pull"

\* C16: in PresentBehind, requesting the update runs git fetch, the checkout
\* of the effective branch and git pull --ff-only, in this order and nothing
\* else; handleRepo only goes on when all of them succeeded, and then writes
\* RepoMeta with the effective branch and the current time as lastAccess; a
\* failed invocation does not launch.
C16_UpdateFastForwards ==
    /\ [](Updated /\ status.behind > 0 =>
            /\ \E hasLocal \in BOOLEAN :
                  steps = <<Ran("prompt"), Ran("fetch origin")>>
                          \o checkoutBranch(hasLocal) \o <<Ran("pull --ff-only")>>
            /\ localBehind(status, steps) = 0)
    /\ [][Updated /\ status.behind > 0 /\ pc' # pc =>
             /\ pc' = "launch"
             /\ readMeta(fs', targetDir).branch = branch
             /\ readMeta(fs', targetDir).lastAccess = now]_vars
    /\ [][pc = "failed" => pc' \in {"failed", "idle"}]_vars

\* The repository was behind, the user requested the update, and fetch,
\* checkout and fast-forward pull have all succeeded.
C16_Witness ==
    /\ Updated /\ status.behind = MaxBehind
    /\ steps = <<Ran("prompt"), Ran("fetch origin"), Ran("show-ref"), Ran("checkout"),
                 Ran("pull --ff-only")>>

\* The status check failed: the fetch, or the look-up of the tracking ref.
Degraded ==
    Decided /\ status.display \in {"Failed to fetch origin", "Failed to check remote branch"}
DegradedRuns == {run \in StatusRuns : ~run.fetch \/ ~run.tracked}

\* C17: a failed status-check fetch or a missing remote tracking ref never
\* aborts the invocation: describeRepoStatus returns a status with behind
\* unknown, from every state in which spoon handles a present repository
\* handleRepo can go on to the write of RepoMeta with that status, and after
\* it the branch was checked out and the launch follows.
C17_StatusFailureDegrades ==
    /\ [](\A run \in DegradedRuns : describeRepoStatus(run).behind = BehindUnknown)
    /\ [](pc = "handle" /\ tool = "spoon" /\ targetDir \in fs.repos =>
            \A run \in DegradedRuns :
               \E r \in UsualRemotes :
                  ENABLED (HandlePresentSpoon(Undefined, run, r) /\ pc' = "write"))
    /\ [](Degraded =>
            /\ lifecycle = "PresentUnknown"
            /\ Cmds(steps) \cap {"checkout", "checkout -b"} # {}
            /\ \A i \in 1..Len(steps) : ~steps[i].ok => steps[i].cmd \in Swallowed)
    /\ [][Degraded /\ pc' # pc => pc' = "launch"]_vars

\* The status-check fetch failed, and handleRepo has checked the branch out
\* and stands before the write of RepoMeta.
C17_Witness ==
    /\ Degraded /\ status = [display |-> "Failed to fetch origin", behind |-> BehindUnknown]
    /\ steps = <<Ran("prompt"), Ran("show-ref"), Ran("checkout")>>

\* C18 as stated: in PresentUnknown handleRepo checks the last-known local
\* branch out without attempting synchronization: no fetch and no pull is
\* run after the failed status check.
C18_UnknownNoSync ==
    Degraded =>
       /\ gitOp = "checkout"
       /\ Cmds(steps) \cap (Fetching \cup Pulling) = {}

\* C19: after a launch that exits with code 0 the RepoMeta is written again
\* with lastAccess read from the clock after the exit: it is the time of
\* the exit, not earlier than the lastAccess written before the launch, and
\* the other fields are those written before the launch.  The same holds
\* for the launch of gain's pick.
C19_LastAccessAfterExit ==
    /\ [][pc = "launch" /\ pc' = "post" => fs' = fs /\ now' = now]_vars
    /\ [][pc = "post" /\ pc' # pc =>
             /\ pc' = "done"
             /\ readMeta(fs', targetDir) = [meta EXCEPT !.lastAccess = now]
             /\ readMeta(fs', targetDir).lastAccess >= meta.lastAccess
             /\ readMeta(fs, targetDir) = meta]_vars
    /\ [][pc = "picklaunch" /\ pc' = "done" =>
             readMeta(fs', selected.path) = [selected.meta EXCEPT !.lastAccess = now]]_vars

\* A repository was cloned at time 0, the launched command ran until
\* MaxTime and exited with 0, and lastAccess is the time of the exit.
C19_Witness ==
    /\ pc = "done" /\ repo # Null /\ AppendedFor(RepoName) = 1 /\ now = MaxTime
    /\ readMeta(fs, targetDir) # Null
    /\ readMeta(fs, targetDir).clonedAt = 0
    /\ readMeta(fs, targetDir).lastAccess = MaxTime

\* handleRepo has run its git commands and goes on.
GoesOn == pc = "write" /\ steps # <<>>
Aborts == pc = "handle" /\ pc' = "failed"

\* C20 as stated: any non-zero exit of a git subprocess other than the
\* status-check fetch aborts the invocation with no retry: handleRepo never
\* goes on after a command that exited non-zero.
C20_AnyGitFailureAborts ==
    GoesOn => \A i \in 1..Len(steps) : steps[i].ok

\* C20: a non-zero exit of git clone, checkout, fetch, pull --ff-only,
\* ls-remote --symref or the plain ls-remote --heads aborts the invocation:
\* handleRepo never goes on after one.  The two commands whose failure is
\* caught are show-ref, after which the branch is fetched and created, and
\* ls-remote --sort, which is run again without --sort.  An aborted
\* handleRepo has written no RepoMeta and appended no HistoryEntry, and the
\* invocation only exits.
C20_GitFailureAborts ==
    /\ [](GoesOn =>
            \A i \in 1..Len(steps) :
               ~steps[i].ok =>
                  /\ steps[i].cmd \in Swallowed
                  /\ i < Len(steps)
                  /\ steps[i].cmd = "show-ref" => steps[i + 1] = Ran("fetch origin <branch>")
                  /\ steps[i].cmd = "ls-remote --sort" => steps[i + 1] = Ran("ls-remote --heads"))
    /\ [][Aborts =>
             /\ history' = history
             /\ \A d \in Locs : fs'.meta[d] \in {fs.meta[d], Null}
             /\ collectRepos(fs') \subseteq collectRepos(fs)]_vars
    /\ [][pc = "failed" /\ pc' # pc => pc' = "idle" /\ fs' = fs /\ history' = history]_vars

\* A clone went through although the sorted listing of the branches had
\* failed: the listing was run again without --sort.
C20_Witness ==
    /\ GoesOn /\ gitOp = "clone"
    /\ steps = <<Ran("ls-remote --symref"), Caught("ls-remote --sort"),
                 Ran("ls-remote --heads"), Ran("clone")>>

\* resolveRepo has returned or thrown for the reference repoInput'.
Resolves == pc = "dispatch" /\ command = "run" /\ repoInput' # <<>>
SlugResult(input) ==
    [owner |-> split(input)[1], repo |-> split(input)[2], url |-> <<GitHubHead>> \o input]

\* C22 as stated: for every reference of the form owner/repo (exactly one
\* "/", no whitespace) resolveRepo returns {owner, repo, url} and goes
\* through no search, no subprocess and no chooser.
C22_SlugNeverSearches ==
    [][Resolves /\ IsSlug(repoInput') =>
         pc' = "resolved" /\ steps' = <<>> /\ offered' = <<>>]_vars

\* C22: for every reference of the form owner/repo (exactly one "/", no
\* whitespace) that does not start like a URL (http://, https://, git@),
\* resolveRepo returns {owner, repo, https://github.com/owner/repo} and goes
\* through no search, no subprocess and no chooser.  A reference that starts
\* like a URL is matched against the GitHub pattern first, also when it has
\* the form owner/repo.
C22_PlainSlugNeverSearches ==
    [][Resolves /\ IsSlug(repoInput') /\ ~isUrl(repoInput') =>
         /\ pc' = "resolved" /\ steps' = <<>> /\ offered' = <<>>
         /\ repo' = SlugResult(repoInput')]_vars

\* The reference o1/r1 was resolved by the parse alone.
C22_Witness ==
    /\ pc = "resolved" /\ repoInput = <<"o1", Slash, "r1">>
    /\ steps = <<>> /\ offered = <<>>
    /\ repo = [owner |-> <<"o1">>, repo |-> <<"r1">>, url |-> <<GitHubHead, "o1", Slash, "r1">>]

\* The spellings of a repository URL: with and without ".git", with and
\* without a trailing "/".
UrlStem(u) == StripDotGit(IF Last(u) = Slash THEN Front(u) ELSE u)
UrlVariants(u) ==
    {UrlStem(u), UrlStem(u) \o <<DotGit>>, UrlStem(u) \o <<Slash>>,
     UrlStem(u) \o <<DotGit, Slash>>}

\* C23 as stated: when parseRepoSlug has parsed a GitHub URL, it extracts
\* the same {owner, repo} from every spelling of that URL, with or without
\* ".git" and with or without a trailing "/".
C23_UrlSpellingsAgree ==
    pc = "resolved" /\ isUrl(repoInput) /\ steps = <<>> =>
       \A v \in UrlVariants(repoInput) :
          /\ parseRepoSlug(v) # Null
          /\ parseRepoSlug(v).owner = repo.owner
          /\ parseRepoSlug(v).repo = repo.repo

LocalSearch == Ran("searchLocalAndHistory")
Names(cands) == {cands[i].fullName : i \in 1..Len(cands)}

\* C24: resolveRepo tries the exact parse, then the local and history match,
\* then the remote search, and the first that yields a repository wins.  A
\* reference that parses is returned as parsed and nothing else runs; the
\* local and history match runs exactly when the parse fails; the remote
\* search runs exactly when the parse fails and the match has no candidate;
\* with candidates the repository returned is one of them; a canceled
\* disambiguation makes resolveRepo throw without a remote search.
C24_FirstSuccessWins ==
    [][Resolves =>
         LET parsed == parseRepoSlug(repoInput')
             cands == pickFrom(repoInput', fs, history)
         IN  /\ parsed # Null => pc' = "resolved" /\ repo' = parsed /\ steps' = <<>>
             /\ parsed = Null => steps' # <<>> /\ steps'[1] = LocalSearch
             /\ "gh search" \in Cmds(steps') <=> parsed = Null /\ cands = <<>>
             /\ "gh search" \in Cmds(steps') => steps'[2].cmd = "gh search"
             /\ parsed = Null /\ cands # <<>> /\ pc' = "resolved" =>
                   /\ \E name \in Names(cands) : repo' = localResult(name)
                   /\ steps' \in {<<LocalSearch>>, <<LocalSearch, Ran("fzf")>>}
             /\ parsed = Null /\ cands # <<>> /\ pc' = "failed" =>
                   steps' = <<LocalSearch, Caught("fzf")>>
             /\ Caught("fzf") \in {steps'[i] : i \in 1..Len(steps')} => pc' = "failed"]_vars

\* The local and history match found two candidates, the user canceled the
\* chooser, and resolveRepo threw without a remote search.
C24_Witness ==
    /\ pc = "failed" /\ command = "run" /\ repoInput = <<"R1">>
    /\ steps = <<LocalSearch, Caught("fzf")>>
    /\ Len(offered) = 2

CachedNames(f) == {e.meta.repoFullName : e \in collectRepos(f)}
NoRepeat(cands) == \A i, j \in 1..Len(cands) : cands[i].fullName = cands[j].fullName => i = j
NamedExactly(name, lowerQuery) ==
    Len(split(name)) >= 2 /\ toLowerCase(split(name)[2]) = lowerQuery
Containing(name, lowerQuery) == includes(toLowerCase(name), lowerQuery)

\* What searchLocalAndHistory is to compute for a query on a cache and a
\* history: seen and cands are what it computed.
LocalMatchRight(query, f, h, seen, cands) ==
    \E names \in {Names(seen)}, cached \in {CachedNames(f)}, lowerQuery \in {toLowerCase(query)} :
       \E exact \in {{n \in names : NamedExactly(n, lowerQuery)}} :
          /\ names = cached \cup logged(h)
          /\ NoRepeat(seen) /\ NoRepeat(cands)
          /\ \A i \in 1..Len(seen) : seen[i].source = "local" <=> seen[i].fullName \in cached
          /\ Names(cands) = IF exact # {} THEN exact
                            ELSE {n \in names : Containing(n, lowerQuery)}
          /\ \A i \in 1..Len(cands) : \E j \in 1..Len(seen) : cands[i] = seen[j]

\* resolveRepo has returned or thrown for a reference that did not parse: the
\* cache and the history are those searchLocalAndHistory read.
LocalMatched ==
    /\ pc \in {"resolved", "failed"} /\ command = "run" /\ repoInput # <<>>
    /\ parseRepoSlug(repoInput) = Null

\* C25: when resolveRepo comes to the local and history match, the
\* candidates are the names of the cached repositories and of the history,
\* each once, tagged local exactly when the repository is cached; the
\* preferred set is the candidates whose repository name equals the query
\* (case ignored), and only if there is none the candidates that contain
\* the query; a preferred set of one is returned without a chooser, and a
\* larger one is what the chooser is handed, nothing more and nothing less.
C25_LocalMatchPrefersExact ==
    /\ [][Resolves => fs' = fs /\ history' = history]_vars
    /\ [](LocalMatched =>
            \E seen \in {seenNames(fs, history)}, cands \in {pickFrom(repoInput, fs, history)} :
                  /\ LocalMatchRight(repoInput, fs, history, seen, cands)
                  /\ Len(cands) = 1 =>
                        /\ pc = "resolved" /\ repo = localResult(cands[1].fullName)
                        /\ steps = <<LocalSearch>> /\ offered = <<>>
                  /\ Len(cands) > 1 =>
                        /\ offered = cands
                        /\ Len(steps) = 2 /\ steps[2].cmd = "fzf"
                        /\ pc = "resolved" =>
                              \E i \in 1..Len(cands) : repo = localResult(cands[i].fullName))

\* The user's repository is cached under one spelling of its name and
\* logged under another: both match the query exactly, the chooser was
\* handed the two, tagged local and history, and the user selected one.
C25_Witness ==
    /\ pc = "resolved" /\ repoInput = <<"R1">>
    /\ steps = <<LocalSearch, Ran("fzf")>>
    /\ offered = pickFrom(repoInput, fs, history)
    /\ {offered[i].source : i \in 1..Len(offered)} = {"local", "history"}
    /\ FullName(<<"r1">>, <<"o1">>) \in logged(history) \ Names(offered)

\* The forced branch: handleRepo stands before the write of RepoMeta and was
\* called with --branch.
Forced == pc = "write" /\ branchOverride # Undefined
Listing == {"ls-remote --symref", "ls-remote --sort", "ls-remote --heads"}
AsksBranch == {"clone", "fetch origin <branch>"}

\* C26: with a forced branch the branch handleRepo goes on with is the
\* forced one, no ls-remote was run and no chooser was handed a list; a
\* forced branch the remote does not have is not refused by selectBranch:
\* the clone (the fetch of the branch before a checkout) fails instead,
\* which ends the invocation, so that handleRepo reaches the write of
\* RepoMeta after such a command only with a branch the remote has.
C26_ForcedBranchUnchecked ==
    /\ [](Forced =>
            /\ branch = branchOverride
            /\ offered = <<>>
            /\ Cmds(steps) \cap Listing = {}
            /\ Cmds(steps) \cap AsksBranch # {} => origin # Null /\ HasBranch(origin, branch))
    /\ [](pc = "handle" /\ targetDir \notin fs.repos =>
            \A forced \in BranchOptions \ {Undefined} :
               /\ selectBranch(forced, Canceled) = forced
               /\ lsRemote(forced, TRUE) = <<>>
               /\ \A r \in {x \in Remotes : ~HasBranch(x, forced)} :
                     /\ ENABLED (HandleAbsent(forced, r) /\ pc' = "failed")
                     /\ ~ENABLED (HandleAbsent(forced, r) /\ pc' # "failed"))

\* --branch dev for a repository that is not cached: the clone was the only
\* command, of a remote that has dev.
C26_Witness ==
    /\ Forced /\ branch = "dev" /\ lifecycle = "Absent"
    /\ steps = <<Ran("clone")>> /\ offered = <<>>
    /\ origin # Null /\ HasBranch(origin, "dev")

\* The branch chooser was called: handleRepo stands before the write of
\* RepoMeta with the list it handed to the chooser.
Chose == pc = "write" /\ offered # <<>>
\* The place of a branch in what ls-remote --heads listed.
Received(r, b) == CHOOSE k \in 1..Len(r.heads) : r.heads[k] = b

\* C27: without a forced branch the list handed to the branch chooser
\* holds no branch twice, starts with the default branch (the one the
\* symbolic HEAD of the remote names, "main" when ls-remote shows none),
\* and goes on with exactly the other branches of the remote, in the order
\* ls-remote listed them; the branch handleRepo goes on with is one of the
\* list.  A clone without --branch always goes through the chooser.
C27_DefaultFirstThenReceived ==
    /\ Chose =>
          /\ branchOverride = Undefined /\ origin # Null
          /\ Cmds(steps) \cap Listing # {}
          /\ offered[1] = IF origin.head # Undefined THEN origin.head ELSE "main"
          /\ \A i, j \in 1..Len(offered) : offered[i] = offered[j] => i = j
          /\ {offered[i] : i \in 2..Len(offered)}
                = {origin.heads[k] : k \in 1..Len(origin.heads)} \ {offered[1]}
          /\ \A i, j \in 2..Len(offered) :
                i < j => Received(origin, offered[i]) < Received(origin, offered[j])
          /\ \E i \in 1..Len(offered) : branch = offered[i]
    /\ pc = "write" /\ lifecycle = "Absent" /\ branchOverride = Undefined => Chose

\* The remote lists dev, main and fix and its HEAD names main: the chooser
\* was handed main, dev, fix, and the user selected dev.
C27_Witness ==
    /\ Chose /\ origin = [head |-> "main", heads |-> <<"dev", "main", "fix">>]
    /\ offered = <<"main", "dev", "fix">>
    /\ branch = "dev"

\* C28: when spoon has handled a present repository, the branch it goes on
\* with is the --branch option if one was given, else the branch of the
\* metadata it read, else the branch getCurrentBranch returned, else
\* "main"; a branch fetched for the checkout is that branch, and it is
\* the branch written to RepoMeta.
C28_EffectiveBranch ==
    /\ [](Decided =>
            /\ branch = IF branchOverride # Undefined THEN branchOverride
                        ELSE IF meta # Null THEN meta.branch
                        ELSE IF checkedOut # Undefined THEN checkedOut
                        ELSE "main"
            /\ Cmds(steps) \cap AsksBranch # {} => origin # Null /\ HasBranch(origin, branch))
    /\ [][Decided /\ pc' = "launch" =>
            branch' = branch /\ readMeta(fs', targetDir).branch = branch]_vars

\* No --branch option, no metadata, and getCurrentBranch returned null: the
\* status check and the checkout took "main".
C28_Witness ==
    /\ Decided /\ branchOverride = Undefined /\ meta = Null /\ checkedOut = Undefined
    /\ branch = "main"
    /\ Cmds(steps) \cap {"checkout", "checkout -b"} # {}

\* No --branch option and no metadata: the branch is the checked-out one.
C28_WitnessCurrent ==
    Decided /\ branchOverride = Undefined /\ meta = Null /\ checkedOut = "dev" /\ branch = "dev"

\* The directory holds a metadata file that parses.
Readable(f, d) == d \in f.repos /\ f.meta[d] # Null /\ f.meta[d] # Torn

\* C29: collectRepos returns one entry, with the parsed metadata, for
\* exactly the directories baseDir/<owner>/<repo> whose metadata file
\* exists and parses; a directory whose file is missing or cut short is
\* left out, and the scan (of purgeOnInvoke, of syncHistory) goes on past
\* it and counts the others.
C29_ScanSkipsUnreadable ==
    /\ fs.base =>
          collectRepos(fs) = {[path |-> d, meta |-> fs.meta[d]] : d \in {x \in Locs : Readable(fs, x)}}
    /\ \A e \in collectRepos(fs) :
          /\ Len(split(e.path)) = 2 /\ OwnerOf(e.path) \in fs.owners
          /\ e.meta = readMeta(fs, e.path)
    /\ {ScanPaths(fs)[i] : i \in 1..Len(ScanPaths(fs))} = {e.path : e \in collectRepos(fs)}
    /\ pc = "dispatch" /\ command = "ls" =>
          scanned = Cardinality({x \in Locs : Readable(fs, x)})

\* ls scans a cache in which one directory holds a metadata file cut short
\* and another holds none: it counted the one directory left.
C29_Witness ==
    /\ pc = "dispatch" /\ command = "ls"
    /\ \E d \in fs.repos : fs.meta[d] = Torn
    /\ \E d \in fs.repos : fs.meta[d] = Null
    /\ scanned = 1 /\ Cardinality(fs.repos) = 3

\* The process dies while handleRepo writes the metadata file.
Crashes == pc \in {"write", "post"} /\ pc' = "idle"

\* C30: when the process dies in the middle of writing the metadata file
\* of one repository, collectRepos returns afterwards every entry it
\* returned before except, at most, that repository's; no directory is
\* lost, and the history holds every line it held, here and after every
\* other step; the repository cached beside the user's is in the index in
\* every state, whatever crashed.
C30_CrashLosesOneRepo ==
    /\ [][Crashes =>
            /\ \A e \in collectRepos(fs) : e.path # targetDir => e \in collectRepos(fs')
            /\ Cardinality(collectRepos(fs) \ collectRepos(fs')) <= 1
            /\ fs'.repos = fs.repos]_vars
    /\ [][Len(history') >= Len(history)
            /\ \A i \in 1..Len(history) : history'[i] = history[i]]_vars
    /\ [](\A d \in FillLocs(1) : [path |-> d, meta |-> FillMeta(d)] \in collectRepos(fs))

\* The process died writing the metadata of the user's repository; the
\* next invocation, ls, has scanned the cache: it found the other
\* repository, and the history still names the user's.
C30_Witness ==
    /\ pc = "done" /\ command = "ls"
    /\ fs.meta[FullName(<<"o1">>, <<"r1">>)] = Torn
    /\ {e.path : e \in collectRepos(fs)} = FillLocs(1)
    /\ FullName(<<"o1">>, <<"r1">>) \in logged(history)

\* The invocation has ended and the process exits.
Ended == processExit # NoExit

\* C21 as stated: an invocation that ends after an error was reported (a
\* failed resolution, a canceled prompt or selection, a failed git command,
\* a launched command that exits with a non-zero code) exits with code 1,
\* and it exits with code 0 only when it has completed: when it was not cut
\* short at a prompt.
C21_ExitCodeTellsOutcome ==
    Ended =>
       /\ pc = "failed" => processExit = 1
       /\ processExit = 0 => pc = "done"

\* Ctrl-C at the Enter/Tab prompt: the invocation ends there, nothing was
\* checked out or written, and the process exits with code 0.
C21_Interrupted ==
    pc = "interrupted" /\ command = "run" /\ processExit = 0

\* The remove command is about to show its prompt.
Removing == pc = "dispatch" /\ command = "remove"
Cached(f) == {d \in Locs : f.base /\ Readable(f, d)}
DeletesExactly(f, g, sel) ==
    /\ g.repos = f.repos \ sel
    /\ g.base = f.base
    /\ \A d \in Locs \ sel : g.meta[d] = f.meta[d]

\* C31: the prompt of the remove command offers every cached repository,
\* each in one of the groups active and expired, and pre-selects exactly
\* those with now - lastAccess > ttlMs; whatever the user leaves ticked,
\* exactly the ticked repositories are deleted and the metadata of the
\* others is untouched; nothing changes when the prompt is canceled or
\* nothing is ticked, and the history is never touched.
C31_RemoveOnlySelection ==
    /\ [](Removing =>
            \E opts \in {removeOptions(fs, ttlMs, now)} :
               /\ opts[1] \cup opts[2] = Cached(fs)
               /\ opts[1] \cap opts[2] = {}
               /\ initialValues(fs, ttlMs, now)
                     = {d \in Cached(fs) : fs.meta[d].lastAccess # NaN
                                           /\ now - fs.meta[d].lastAccess > ttlMs}
               /\ initialValues(fs, ttlMs, now) \in RemoveChoices(fs)
               /\ \A sel \in RemoveChoices(fs) :
                     /\ sel \subseteq opts[1] \cup opts[2]
                     /\ DeletesExactly(fs, removeRepos(fs, FALSE, sel), sel)
                     /\ removeRepos(fs, TRUE, sel) = fs
                     /\ sel = {} => removeRepos(fs, FALSE, sel) = fs)
    /\ [][Removing /\ pc' = "done" =>
            /\ fs.repos \ fs'.repos \subseteq Cached(fs)
            /\ fs'.repos \subseteq fs.repos
            /\ \A d \in fs'.repos : fs'.meta[d] = fs.meta[d]
            /\ history' = history
            /\ steps' = <<Caught("multiselect")>> => fs' = fs
            /\ steps' = <<Ran("multiselect")>> => fs.repos \ fs'.repos \in RemoveChoices(fs)]_vars

\* The prompt offered active and expired repositories, the user left the
\* pre-selection as it was: the expired ones are gone, the active ones kept.
C31_Witness ==
    /\ pc = "done" /\ command = "remove" /\ steps = <<Ran("multiselect")>>
    /\ offered[1] # {} /\ offered[2] # {}
    /\ fs.repos \cap offered[2] = {}
    /\ offered[1] \subseteq Cached(fs)

\* A step deletes the cached checkout d: its directory is gone, or the
\* metadata that was read from it is.
Deletes(d) ==
    /\ d \in fs.repos
    /\ \/ d \notin fs'.repos
       \/ readMeta(fs, d) # Null /\ readMeta(fs', d) = Null

\* C32: the directory and the RepoMeta of a cached repository are deleted
\* only by the remove command and by the purge of expired entries; no other
\* step (resolve, branch selection, checkout, update, reclone, launch, ls,
\* syncHistory) deletes them, whether it succeeds or fails.
C32_OnlyRemovalOrEvictionDeletes ==
    [][(\E d \in Locs : Deletes(d)) => (pc = "purge" \/ Removing)]_vars

\* The call of checkoutBranch(targetDir, b) in the working copy w.
Checkout(w, b) == gitRun(w, origin, b, checkoutBranch(HasRef(w.local, b)), 1)
CheckedOut(b) == pc = "handle" /\ runs = <<>> /\ gitOp = "checkout" /\ branch = b /\ ~Threw(steps)

\* C33: checkoutBranch is idempotent: called again for the branch it has
\* just checked out, it leaves the local branches, the commits they point
\* at and the branch checked out as they are, and it runs the plain checkout
\* alone: no fetch, no branch is created.
C33_CheckoutIdempotent ==
    \A b \in Branches :
      CheckedOut(b) =>
        LET hasLocal == HasRef(work.local, b)
            again == Checkout(work, b)
        IN  /\ work.head = b /\ hasLocal
            /\ again.failAt = 0
            /\ again.work = work
            /\ Execute(checkoutBranch(hasLocal), again.failAt)
                 = <<Ran("show-ref"), Ran("checkout")>>

\* checkoutBranch has fetched the branch and created it locally from the
\* remote-tracking branch.
C33_Witness ==
    /\ CheckedOut("dev")
    /\ steps = <<Caught("show-ref"), Ran("fetch origin <branch>"), Ran("checkout -b")>>
    /\ <<"dev", MaxTip>> \in work.local
    /\ Checkout(work, "dev").work = work

Stored == readMeta(fs, targetDir)
Others(p) == Procs \ {p}
Completed(p) == runs[p].pc = "done"
Overlapped == \A p \in Procs : Completed(p)

\* C34: two handleRepo calls on the same repository are not coordinated.
\* Each call checks its branch out in the shared working copy and writes its
\* RepoMeta over whatever the other call has written; when both have
\* completed, a stored branch that differs from the branch checked out is
\* the branch of one call against the checkout of the other.
C34_UncoordinatedCalls ==
    /\ [][\A p \in Procs :
            /\ runs[p].pc \in {"write", "post"} /\ runs'[p].pc # runs[p].pc
               => /\ readMeta(fs', targetDir) # Null
                  /\ readMeta(fs', targetDir).branch = runs[p].branch
            /\ runs[p].pc = "git" /\ runs'[p].pc = "write"
               => work'.head = runs[p].branch /\ fs' = fs]_vars
    /\ [](Overlapped /\ Stored.branch # work.head
            => /\ runs[1].branch # runs[2].branch
               /\ \E p \in Procs : \E q \in Others(p) :
                    Stored.branch = runs[p].branch /\ work.head = runs[q].branch)

\* Both calls have completed, and the RepoMeta left names a branch that is
\* not the one checked out.
C34_Witness ==
    /\ Overlapped
    /\ Stored # Null
    /\ Stored.branch # work.head

\* C35: when one handleRepo call has completed and no other call has
\* touched the repository, the RepoMeta names the branch that is checked out
\* in the working copy, whether the call cloned, checked out or pulled.
C35_MetaBranchIsCheckedOut ==
    \A p \in Procs :
      Completed(p) /\ (\A q \in Others(p) : runs[q].pc = "off")
        => /\ Stored # Null
           /\ Stored.branch = work.head
           /\ Stored.branch = runs[p].branch

\* One call has completed after Tab at the prompt: the branch was behind,
\* pullRepo has moved it to the tip of the remote.
C35_Witness ==
    /\ Completed(1) /\ runs[2].pc = "off"
    /\ runs[1].status # Null /\ runs[1].status.behind > 0
    /\ <<runs[1].branch, MaxTip>> \in work.local
    /\ Stored.branch = work.head

\* The cache entry is expired: its lastAccess is a time, more than ttlMs ago.
Overdue(e) == isFinite(getTime(e.meta.lastAccess)) /\ Expired(e)
Purged == scanned # NoScan /\ scanned >= PURGE_FLOOR
Deciding == pc \in {"dispatch", "resolved", "handle"}

\* C36: the purge runs before the invocation decides what to do with a
\* repository.  With 10 or more entries in the cache, every entry that is
\* expired when the invocation starts is deleted by the purge step, no
\* expired entry is left while the command is dispatched, resolved and
\* handled, and a repository whose directory is not there is handled as
\* Absent: the branch is selected anew, the repository cloned, clonedAt set
\* to the time of the clone and one HistoryEntry appended.
C36_ExpiredNeverReused ==
    /\ [][PurgeStep /\ Cardinality(collectRepos(fs)) >= PURGE_FLOOR
            => \A e \in collectRepos(fs) :
                 Overdue(e) => e.path \notin fs'.repos /\ readMeta(fs', e.path) = Null]_vars
    /\ [](Deciding /\ Purged => \A e \in collectRepos(fs) : ~Overdue(e))
    /\ [][pc = "handle" /\ pc' = "write" /\ targetDir \notin fs.repos
            => /\ lifecycle' = "Absent" /\ gitOp' = "clone"
               /\ targetDir \in fs'.repos
               /\ clonedAt' = now
               /\ Len(history') = Len(history) + 1
               /\ Last(history').repoFullName = FullName(repo.owner, repo.repo)
               /\ IF branchOverride' = Undefined
                  THEN /\ offered' # <<>>
                       /\ \E i \in 1..Len(offered') : offered'[i] = branch'
                  ELSE branch' = branchOverride']_vars

\* The purge has scanned the fillers and the user's repository and deleted
\* it, and handleRepo has cloned it again: a branch was chosen, clonedAt is
\* the time of this clone, the history has the line of the first clone and a
\* new one.
C36_Witness ==
    /\ pc = "write" /\ lifecycle = "Absent" /\ command = "run"
    /\ scanned = Cardinality(FillLocs(MaxFill)) + 1
    /\ offered # <<>>
    /\ clonedAt = now /\ now > ttlMs
    /\ Len(history) = histMark + 1
    /\ Cardinality({i \in 1..Len(history) :
                      history[i].repoFullName = FullName(repo.owner, repo.repo)}) >= 2

\* The candidates of a local/history match that asks for the repository
\* name of fullName.
FoundBy(fullName, f, h) == pickFrom(split(fullName)[2], f, h)
Evicted(e) == e.path \notin fs'.repos

\* C37: syncHistory runs before purgeOnInvoke.  When the purge step starts,
\* every cached repository has a line in the history; a repository the
\* purge deletes has one when it is deleted, the local/history match for its
\* name then finds it with the tag "history", and no later step takes a
\* name out of the history.
C37_EvictedStayInHistory ==
    /\ [](pc = "purge" => \A e \in collectRepos(fs) : e.meta.repoFullName \in logged(history))
    /\ [][PurgeStep
            => \A e \in collectRepos(fs) :
                 Evicted(e)
                   => /\ e.meta.repoFullName \in logged(history')
                      /\ \E c \in {FoundBy(e.meta.repoFullName, fs', history')} :
                           \E i \in 1..Len(c) :
                              c[i] = [fullName |-> e.meta.repoFullName, source |-> "history"]]_vars
    /\ [][logged(history) \subseteq logged(history')]_vars

\* The purge has deleted the user's repository among others; the match for
\* its name finds it in the history.
C37_Witness ==
    /\ pc = "dispatch" /\ Purged
    /\ Cardinality(collectRepos(fs)) < scanned
    /\ \E d \in UserLocs :
         /\ d \notin fs.repos
         /\ \E c \in {FoundBy(d, fs, history)} :
               \E i \in 1..Len(c) : c[i] = [fullName |-> d, source |-> "history"]

Kept(d) == d \in fs'.repos /\ fs'.meta[d] = fs.meta[d]

\* C38: the automatic purge deletes entries only.  A repository directory
\* without a metadata file, or with one that cannot be parsed, stays as it
\* is; so does an entry whose lastAccess is not a time; baseDir stays; and
\* an owner directory goes only when the purge has deleted every directory
\* in it.  This holds for every cache, every time and every ttlMs.
C38_PurgeDeletesDatedEntriesOnly ==
    [][PurgeStep
         => /\ \A d \in fs.repos :
                 /\ readMeta(fs, d) = Null => Kept(d)
                 /\ readMeta(fs, d) # Null /\ ~isFinite(getTime(readMeta(fs, d).lastAccess))
                      => Kept(d)
            /\ fs'.base = fs.base /\ fs.base
            /\ fs'.repos \subseteq fs.repos
            /\ \A o \in fs.owners \ fs'.owners :
                 \A d \in readdirSync(fs, o) : readMeta(fs, d) # Null /\ Overdue([path |-> d, meta |-> fs.meta[d]])]_vars

\* The purge has deleted expired entries and left a directory without
\* metadata, one with a torn metadata file and an entry without a date.
C38_Witness ==
    /\ pc = "dispatch" /\ Purged
    /\ Cardinality(collectRepos(fs)) < scanned
    /\ fs.base
    /\ \E a, b, c \in fs.repos :
         /\ fs.meta[a] = Null
         /\ fs.meta[b] = Torn
         /\ readMeta(fs, c) # Null /\ readMeta(fs, c).lastAccess = NaN
         /\ now - getTime(readMeta(fs, c).lastAccess) > ttlMs

\* How far an invocation has come.
Rank ==
    [p \in {"idle", "config", "purge", "dispatch", "resolved", "handle", "write", "launch",
            "picklaunch", "post", "done", "failed", "interrupted"} |->
        IF p = "idle" THEN 0
        ELSE IF p \in {"config", "purge"} THEN 1
        ELSE IF p = "dispatch" THEN 2
        ELSE IF p = "resolved" THEN 3
        ELSE IF p = "handle" THEN 4
        ELSE IF p = "write" THEN 5
        ELSE IF p \in {"launch", "picklaunch"} THEN 6
        ELSE IF p = "post" THEN 7
        ELSE 8]
AliasUnknown(ran) == \E i \in 1..Len(ran) : ran[i] = Caught("resolveLaunchTarget")

\* C39: handleRepo starts the launch command at most once in an invocation,
\* and only when the launch target was resolved, the git operation has
\* succeeded and the RepoMeta is written; when resolveLaunchTarget throws,
\* the invocation fails before anything was resolved, cloned, checked out or
\* written.
C39_LaunchOnceAfterWrite ==
    /\ [][pc' # pc => pc' = "idle" \/ Rank[pc'] > Rank[pc]]_vars
    /\ [][pc' = "launch" /\ pc # "launch"
            => /\ pc = "write" /\ command \in {"pick", "run"}
               /\ gitOp \in {"clone", "checkout", "pull", "reclone"}
               /\ steps # <<>> /\ ~Threw(steps) /\ ~AliasUnknown(steps)
               /\ targetDir \in fs.repos
               /\ readMeta(fs', targetDir) = meta'
               /\ meta'.branch = branch /\ meta'.lastAccess = now]_vars
    /\ [](pc = "launch" => readMeta(fs, targetDir) = meta /\ meta # Null)
    /\ [][pc = "launch" /\ pc' # pc => pc' \in {"post", "failed"}]_vars
    /\ [][AliasUnknown(steps') /\ ~AliasUnknown(steps)
            => /\ pc = "dispatch" /\ pc' = "failed"
               /\ steps = <<>> /\ repo = Null /\ gitOp = Undefined /\ lifecycle = Undefined
               /\ fs' = fs /\ history' = history]_vars

\* spoon has cloned the repository and written its RepoMeta, and the launch
\* command is running.
C39_Witness ==
    /\ pc = "launch" /\ tool = "spoon" /\ command = "run"
    /\ gitOp = "clone"
    /\ readMeta(fs, targetDir) = meta
    /\ meta.lastAccess = meta.clonedAt

LaunchFails == pc = "launch" /\ pc' = "failed"

\* C40: when the launched command exits with a non-zero code the invocation
\* fails, and the RepoMeta written before the launch stays as it was
\* written: it keeps the lastAccess of before the launch and the effective
\* branch, nothing is deleted, and the rewrite that follows a successful
\* launch does not happen, neither then nor before the process exits.
C40_FailedLaunchKeepsMeta ==
    /\ [][LaunchFails
            => /\ fs' = fs /\ history' = history
               /\ readMeta(fs', targetDir) = meta
               /\ meta.branch = branch
               /\ meta.lastAccess <= now]_vars
    /\ [][pc' = "post" /\ pc # "post" => pc = "launch"]_vars
    /\ [][pc = "failed" => fs' = fs /\ history' = history /\ pc' \in {"failed", "idle"}]_vars
    /\ [](pc = "failed" => processExit = 1)

\* The repository was cloned in this invocation and the launched command
\* has failed some time after the RepoMeta was written: the RepoMeta holds
\* the time of the write.
C40_Witness ==
    /\ pc = "failed" /\ command = "run" /\ repo # Null
    /\ Len(history) = histMark + 1
    /\ readMeta(fs, targetDir) # Null
    /\ readMeta(fs, targetDir).lastAccess < now
    /\ readMeta(fs, targetDir).lastAccess = readMeta(fs, targetDir).clonedAt
    /\ readMeta(fs, targetDir).branch = "dev"

====
